---------------------------- MODULE Spec2Model ----------------------------
(***************************************************************************)
(* Product statistics pipeline of the catalog backend:                     *)
(*   - StatsService (src/src/products/stats/stats.service.ts): Redis       *)
(*     counters, dirty set, computed-response cache, durable rows;         *)
(*   - EventsService (src/unnamed/part_017): trackEvent;                   *)
(*   - ProductQueueProcessor (src/src/bull/processors/product/             *)
(*     productQueue.ts): the jobs that call incrementStats;                *)
(*   - CartWorker (src/unnamed/part_001): cart add, update and remove;     *)
(*   - RankingsService (src/src/products/rankings/rankings.service.ts):    *)
(*     the rank indexes, their range and rank queries, the rebuild;        *)
(*   - ProductsService (src/src/products/products.service.ts): remove.     *)
(*                                                                         *)
(* Every await of StatsService on Redis, the database or a queue is one    *)
(* step; a client.multi() ... exec() block is one step (MULTI/EXEC).  A    *)
(* call of updateProductRanking is one step, and so is the database write  *)
(* of a cart job together with the pipeline of its incrementStats.         *)
(*                                                                         *)
(* The body of StatsService.flushDirtyStats and popDirtyProducts is        *)
(* disabled in the source (stats.service.ts 323-400, 486-490, every line   *)
(* commented out), RedisService has no popMinMembers, and no worker of     *)
(* the stats queue is part of the source.  scheduledFlush and              *)
(* syncRedisToDatabase are modelled as the source has them (no flush).     *)
(* The flush cycle run by the stats-queue worker is modelled from the      *)
(* specification, section 4.3 (Flush* actions below).                      *)
(***************************************************************************)
EXTENDS Integers, Sequences, FiniteSets, TLC

\* ------------------------------------------------------------------ bounds
NumProducts == 2
MaxCount == 5
MaxTime == 1
MaxQueue == 1
MaxCalls == 2
MaxQuantity == 2

\* DIRTY_FLUSH_THRESHOLD (200) and the claim size of one flush cycle (500),
\* scaled to the number of products of the model.
DIRTY_FLUSH_THRESHOLD == 2
BATCH_MAX == 1

\* The range queries are called with limit in 1..MaxLimit and offset in
\* 0..MaxOffset.
MaxLimit == 3
MaxOffset == 1

\* trackView is called MaxViews times; the flush threshold (100) and the
\* size of one drain (500) are scaled to it, and the table of views holds
\* at most MaxRows rows.
MaxViews == 3
PRODUCT_VIEW_FLUSH_THRESHOLD == 2
VIEW_BATCH == 2
MaxRows == 4

Products == 1..NumProducts
Readers == {"r1", "r2"}
Writers == {"w1"}
Flushers == {"f1", "f2"}
BoostCallers == {"b1", "b2"}
\* The two sources of flushBuffer calls: the 5-second timer and the worker
\* of the singleton "flush-buffer" job.
ViewFlushers == {"timer", "worker"}

\* --------------------------------------------------------------- key space
Metrics == {"views", "clicks", "organicClicks", "carts", "orders", "boostScore"}

VARIABLES
  counters,    \* [Products -> partial function Metrics -> Int]: the keys stats:product:{id}:{metric}
  ttlAt,       \* [Products -> -1..MaxTime]: time of the last SETEX/EXPIRE of the product's counter keys
  dirty,       \* partial function Products -> score: the sorted set stats:dirty:products
  cache,       \* partial function Products -> response: the keys stats:cached:{id}
  db,          \* partial function Products -> row: table product_stats
  now,         \* Date.now()
  wr,          \* [Writers -> call state of incrementStats]
  rd,          \* [Readers -> call state of getStats]
  tr,          \* call state of trackEvent
  productQueue,\* jobs of "product-queue"
  flushJob,    \* state of the job stats-flush-singleton in the stats queue, or "none"
  fl,          \* [Flushers -> state of a flush cycle]
  rs,          \* call state of resetStats
  execCount,   \* history: [Products -> number of incrementStats pipelines executed]
  doneCount,   \* history: [Products -> number of incrementStats calls returned]
  recorded,    \* history: [Products -> deltas of the events accepted by trackEvent]
  pending,     \* history: [Products -> an incrementStats ran since the last successful flush]
  cycled,      \* history: [Products -> a scheduledFlush/on-demand sync ran since the last increment]
  flushed,     \* history: partial function Products -> row written by the last successful
               \* flush whose counters have not changed since that cycle read them
  products,    \* [Products -> row of table product, with its boosting relation]
  trending,    \* partial function Products -> score: the sorted set ranking:trending
  discounted,  \* the sorted set ranking:discounted
  newArrivals, \* the sorted set ranking:new-arrivals
  popular,     \* the sorted set ranking:popular
  ur,          \* history: the last call of updateProductRanking (product, Date.now(), outcome)
  rb,          \* call state of rebuildAllRankings
  cartItems,   \* [Products -> quanity of the cart item of the product, 0: no item]
  boostQueue,  \* jobs of "boost-queue" (waiting or delayed)
  lock,        \* partial function Products -> token: the keys boost:lock:product:{id}
  bc,          \* [BoostCallers -> call state of createBoost]
  viewBuffer,  \* the Redis list product-view-buffer, head first
  vf,          \* [ViewFlushers -> call state of flushBuffer]
  productViews, \* the rows of table product_views, in insertion order
  viewCount,   \* [Products -> Nat]: the keys product:{id}:views
  viewJob,     \* state of the job "flush-views-singleton" of the view queue
  tracked      \* history: the productId of every trackView call, in order

statsVars == <<counters, ttlAt, dirty, cache, db, now, wr, rd, tr, productQueue,
               flushJob, fl, rs, execCount, doneCount, recorded, pending, cycled, flushed>>

rankVars == <<products, trending, discounted, newArrivals, popular, ur, rb>>
cartVars == <<cartItems>>
boostVars == <<boostQueue, lock, bc>>
viewVars == <<viewBuffer, vf, productViews, viewCount, viewJob, tracked>>

vars == <<statsVars, rankVars, cartVars, boostVars, viewVars>>

\* ------------------------------------------------------- Redis primitives
NoKeys == [m \in {} |-> 0]

\* GET of a counter key, as every reader of the source converts it:
\* Number(null) = 0 (getStats), parseInt(raw ?? "0") (flush).
Val(c, m) == IF m \in DOMAIN c THEN c[m] ELSE 0

ReadCounters(c) == [m \in Metrics |-> Val(c, m)]

\* INCRBY / INCRBYFLOAT for every non-zero field of a dto: `if (dto.views) ...`.
\* An absent key is created.
\* A faulty pipeline: the counters are written with SET of the delta, so
\* the later of two calls replaces what the earlier one added.
IncrByOverwrites(c, d) ==
  [m \in DOMAIN c \cup {x \in Metrics : d[x] # 0} |-> IF d[m] # 0 THEN d[m] ELSE Val(c, m)]

IncrBy(c, d) ==
  [m \in DOMAIN c \cup {x \in Metrics : d[x] # 0} |-> Val(c, m) + d[m]]

\* ZADD key score member, with and without NX.
ZAdd(z, p, score) == [q \in DOMAIN z \cup {p} |-> IF q = p THEN score ELSE z[q]]
ZAddOverwrites(z, p, score) == ZAdd(z, p, score)
ZAddNX(z, p, score) == IF p \in DOMAIN z THEN z ELSE ZAdd(z, p, score)

\* DEL of one key of a keyed store.
Del(f, p) == [q \in DOMAIN f \ {p} |-> f[q]]
Put(f, p, v) == [q \in DOMAIN f \cup {p} |-> IF q = p THEN v ELSE f[q]]

\* SETEX of the six counter keys from six values (initializeRedisCounters, seedRedisFromDB).
SetExAll(v) == [m \in Metrics |-> v[m]]

ZeroDelta == [m \in Metrics |-> 0]
Delta(m, n) == [ZeroDelta EXCEPT ![m] = n]

\* ------------------------------------------------------------ durable rows
ZeroRow == [totalViews |-> 0, clicks |-> 0, organicClick |-> 0,
            totalCarts |-> 0, totalOrders |-> 0, totalBoostScore |-> 0]

\* The counters of a row, by metric (getStats L3, seedRedisFromDB).
RowVals(row) == [m \in Metrics |->
  CASE m = "views" -> row.totalViews
    [] m = "clicks" -> row.clicks
    [] m = "organicClicks" -> row.organicClick
    [] m = "carts" -> row.totalCarts
    [] m = "orders" -> row.totalOrders
    [] OTHER -> row.totalBoostScore]

\* The row a flush cycle builds from the six values it read.
ToRow(v) == [totalViews |-> v["views"], clicks |-> v["clicks"],
             organicClick |-> v["organicClicks"], totalCarts |-> v["carts"],
             totalOrders |-> v["orders"], totalBoostScore |-> v["boostScore"]]

\* ------------------------------------------------------------- responses
\* A faulty rate: the fraction, not multiplied by 100.
RateFraction(n, views) == IF views > 0 THEN (n * 100) \div views ELSE 0

\* views > 0 ? (n / views) * 100 : 0, kept in hundredths of a percent.
Rate(n, views) == IF views > 0 THEN (n * 10000) \div views ELSE 0

\* The ProductStatsResponse getStats builds from the six values.
StatsOf(p, v) ==
  [productId |-> p, totalViews |-> v["views"], clicks |-> v["clicks"],
   organicClick |-> v["organicClicks"], totalCarts |-> v["carts"],
   totalOrders |-> v["orders"], totalBoostScore |-> v["boostScore"],
   conversionRate |-> Rate(v["orders"], v["views"]),
   clickThroughRate |-> Rate(v["clicks"], v["views"])]

\* --------------------------------------------------------- process states
IdleWriter == [pc |-> "idle", p |-> 0, job |-> "none", dto |-> ZeroDelta]
IdleReader == [pc |-> "idle", p |-> 0, vals |-> ZeroDelta, ver |-> 0, since |-> 0]
IdleTracker == [pc |-> "idle", p |-> 0, type |-> "view", quantity |-> 0, before |-> NoKeys]
IdleFlusher == [pc |-> "idle", ids |-> {}, vals |-> NoKeys, prev |-> NoKeys]
IdleReset == [pc |-> "idle", p |-> 0]

\* createBoost: no call; `token` is the lockToken of the call, `calls` counts
\* the calls of the caller (history).
IdleBoostCaller == [pc |-> "idle", p |-> 0, token |-> <<>>, calls |-> 0]

\* flushBuffer not running; inserted: the bulk INSERT of the batch has succeeded.
IdleViewFlusher == [pc |-> "idle", items |-> <<>>, inserted |-> FALSE]

IdleUpdate == [p |-> 0, outcome |-> "none", at |-> 0]
IdleRebuild == [pc |-> "idle", ids |-> {}, products |-> <<>>, db |-> <<>>, now |-> 0]

\* ------------------------------------------------------------ product rows
\* Date.now() and `new Date()`, in days since 1970: the model's clock starts
\* on day EpochDay.
EpochDay == 20000
Today == EpochDay + now

\* A nullable timestamp column that is null.
NoDate == -1

\* product.discountPercentage / discountStartDate / discountEndDate
NoDiscount == [discountPercentage |-> 0, discountStartDate |-> NoDate, discountEndDate |-> NoDate]

\* product.boosting: the product_boosting row, status "none" when there is no row.
NoBoost == [status |-> "none", startDate |-> NoDate, endDate |-> NoDate]

\* A row of table product saved by ProductsService.create on day EpochDay.
\* history: `createdAt` is the day of the save (the table has no such
\* column), `created` the progress of its product-created job ("saved": not
\* yet run, "row": stats row saved, "done": counters initialized), `removed`
\* how the last ProductsService.remove of the product ended.
NewProduct(discount, boosting, created) ==
  [deletedAt |-> NoDate, createdAt |-> EpochDay,
   discountPercentage |-> discount.discountPercentage,
   discountStartDate |-> discount.discountStartDate,
   discountEndDate |-> discount.discountEndDate,
   boosting |-> boosting, created |-> created, removed |-> "none"]

\* history: the counters of p changed
Touched(p) ==
  /\ flushed' = Del(flushed, p)
  /\ cycled' = [cycled EXCEPT ![p] = FALSE]

\* ------------------------------------------------------------------ Init
\* The state once the products `rows` have been saved and incrementStats has
\* the given callers.  A product whose product-created job has run
\* (StatsService.create) has a zeroed row and its six counters, which hold
\* `values` since, with COUNTER_TTL; a product saved by
\* ProductsService.create whose job is still waiting has neither.
\* `arrivals` is the content of ranking:new-arrivals.
InitFrom(callers, rows, values, arrivals) ==
  /\ counters = [p \in Products |-> IF rows[p].created = "done"
                                     THEN SetExAll(values[p]) ELSE NoKeys]
  /\ ttlAt = [p \in Products |-> 0]
  /\ dirty = NoKeys
  /\ cache = NoKeys
  /\ db = [p \in {q \in Products : rows[q].created = "done"} |-> ZeroRow]
  /\ now = 0
  /\ wr = [w \in callers |-> IdleWriter]
  /\ rd = [r \in Readers |-> IdleReader]
  /\ tr = IdleTracker
  /\ productQueue = <<>>
  /\ flushJob = "none"
  /\ fl = [f \in Flushers |-> IdleFlusher]
  /\ rs = IdleReset
  /\ execCount = [p \in Products |-> 0]
  /\ doneCount = [p \in Products |-> 0]
  /\ recorded = [p \in Products |-> ZeroDelta]
  /\ pending = [p \in Products |-> FALSE]
  /\ cycled = [p \in Products |-> FALSE]
  /\ flushed = NoKeys
  /\ products = rows
  /\ trending = NoKeys
  /\ discounted = NoKeys
  /\ newArrivals = arrivals
  /\ popular = NoKeys
  /\ ur = IdleUpdate
  /\ rb = IdleRebuild
  /\ cartItems = [p \in Products |-> 0]
  /\ boostQueue = {}
  /\ lock = NoKeys
  /\ bc = [c \in BoostCallers |-> IdleBoostCaller]
  /\ viewBuffer = <<>>
  /\ vf = [f \in ViewFlushers |-> IdleViewFlusher]
  /\ productViews = <<>>
  /\ viewCount = [p \in Products |-> 0]
  /\ viewJob = "none"
  /\ tracked = <<>>

\* ... with every counter at "0".
InitWith(callers, rows) == InitFrom(callers, rows, [p \in Products |-> ZeroDelta], NoKeys)

\* Every product has been created, with no discount and no boost.
Init == InitWith(Writers, [p \in Products |-> NewProduct(NoDiscount, NoBoost, "done")])

\* ---------------------------------------------------- guards of the bounds
InRange(c) == \A m \in DOMAIN c : c[m] >= -MaxCount /\ c[m] <= MaxCount

\* A faulty incrementStats: the commands are sent one by one instead of in
\* one MULTI, and the call is seen after the first of them (INCRBY views).
IncrementStatsSplit(w, p, d, job) ==
  /\ wr[w].pc = "idle"
  /\ execCount[p] < MaxCalls
  /\ InRange(IncrBy(counters[p], d))
  /\ counters' = [counters EXCEPT ![p] = IncrBy(@, Delta("views", d["views"]))]
  /\ wr' = [wr EXCEPT ![w] = [pc |-> "zcard", p |-> p, job |-> job, dto |-> d]]
  /\ execCount' = [execCount EXCEPT ![p] = @ + 1]
  /\ pending' = [pending EXCEPT ![p] = TRUE]
  /\ Touched(p)
  /\ UNCHANGED <<ttlAt, dirty, cache, db, now, rd, tr, flushJob, fl, rs, doneCount, recorded>>
  /\ UNCHANGED rankVars

\* ------------------------------------------------ StatsService.incrementStats
\* The MULTI pipeline of incrementStats: the INCRBYs, ZADD NX of the dirty
\* mark and DEL of the cached response, executed by one EXEC.
IncrementStatsExec(w, p, d, job) ==
  /\ wr[w].pc = "idle"
  /\ execCount[p] < MaxCalls
  /\ InRange(IncrBy(counters[p], d))
  /\ counters' = [counters EXCEPT ![p] = IncrBy(@, d)]
  /\ dirty' = ZAddNX(dirty, p, now)
  /\ cache' = Del(cache, p)
  /\ wr' = [wr EXCEPT ![w] = [pc |-> "zcard", p |-> p, job |-> job, dto |-> d]]
  /\ execCount' = [execCount EXCEPT ![p] = @ + 1]
  /\ pending' = [pending EXCEPT ![p] = TRUE]
  /\ Touched(p)
  /\ UNCHANGED <<ttlAt, db, now, rd, tr, flushJob, fl, rs, doneCount, recorded>>
  /\ UNCHANGED rankVars

\* enqueuFlush: statsQueue.add with jobId "stats-flush-singleton"
\* ("only one in queue at a time"), removeOnComplete: 10, removeOnFail: 5.
\* add is ignored while a job of that id exists in the queue, in whatever
\* state: the finished job is kept among the last 10 completed (5 failed).
EnqueuFlush(job) == IF job = "none" THEN "waiting" ELSE job

\* After the pipeline: ZCARD of the dirty set, enqueuFlush at the threshold,
\* and the call returns.
IncrementStatsCheck(w) ==
  /\ wr[w].pc = "zcard"
  /\ flushJob' = IF Cardinality(DOMAIN dirty) >= DIRTY_FLUSH_THRESHOLD
                 THEN EnqueuFlush(flushJob) ELSE flushJob
  /\ doneCount' = [doneCount EXCEPT ![wr[w].p] = @ + 1]
  /\ wr' = [wr EXCEPT ![w] = IF wr[w].job = "update-product-stats"
                             THEN [@ EXCEPT !.pc = "ranking"] ELSE IdleWriter]
  /\ UNCHANGED <<counters, ttlAt, dirty, cache, db, now, rd, tr, productQueue, fl, rs,
                 execCount, recorded, pending, cycled, flushed>>
  /\ UNCHANGED <<rankVars, cartVars, boostVars, viewVars>>

\* A caller that is no product-queue job: CartWorker (carts: +quantity,
\* carts: -quantity), BoostQueueProcessor, or any dto with several metrics.
DirectIncrement(w, p, d) ==
  /\ IncrementStatsExec(w, p, d, "direct")
  /\ UNCHANGED <<productQueue, cartVars, boostVars, viewVars>>

\* ------------------------------------------------ ProductQueueProcessor
\* handleIncrementViews (views: 1), handleIncrementCarts (carts: quantity),
\* handleIncrementOrders (orders: quantity).
JobDelta(job) ==
  CASE job.name = "increment-views" -> Delta("views", 1)
    [] job.name = "increment-carts" -> Delta("carts", job.quantity)
    [] OTHER -> Delta("orders", job.quantity)

HandleIncrementJob(w) ==
  /\ productQueue # <<>>
  /\ Head(productQueue).name \in {"increment-views", "increment-carts", "increment-orders"}
  /\ IncrementStatsExec(w, Head(productQueue).productId, JobDelta(Head(productQueue)),
                        Head(productQueue).name)
  /\ productQueue' = Tail(productQueue)
  /\ UNCHANGED <<cartVars, boostVars, viewVars>>

\* handleStatsUpdate of a job {productId, incrementViews: true}
\* (ProductsService.incrementView): incrementStats({views: 1}), then
\* rankingService.incrementViewsAndUpdateRanking(productId).
HandleStatsUpdate(w, p) ==
  /\ p \in DOMAIN db => db[p].totalViews < MaxCount
  /\ IncrementStatsExec(w, p, Delta("views", 1), "update-product-stats")
  /\ UNCHANGED <<productQueue, cartVars, boostVars, viewVars>>

\* ------------------------------------------------ EventsService.trackEvent
EventTypes == {"view", "add_to_cart", "order"}

EventMetric(type) ==
  CASE type = "view" -> "views"
    [] type = "add_to_cart" -> "carts"
    [] OTHER -> "orders"

\* The delta an event stands for: one view, or `quantity` carts / orders.
EventDelta(type, quantity) ==
  Delta(EventMetric(type), IF type = "view" THEN 1 ELSE quantity)

\* incrementEventCounters: redisService.incr of the product-level key.
\* `before` records the product's counters as the call found them.
IncrementEventCounters(p, type, quantity) ==
  /\ tr.pc = "idle"
  /\ recorded[p][EventMetric(type)] + EventDelta(type, quantity)[EventMetric(type)] <= MaxCount
  /\ InRange(IncrBy(counters[p], Delta(EventMetric(type), 1)))
  /\ counters' = [counters EXCEPT ![p] = IncrBy(@, Delta(EventMetric(type), 1))]
  /\ tr' = [pc |-> "queue", p |-> p, type |-> type, quantity |-> quantity,
            before |-> counters[p]]
  /\ recorded' = [recorded EXCEPT ![p] =
                    [m \in Metrics |-> @[m] + EventDelta(type, quantity)[m]]]
  /\ Touched(p)
  /\ UNCHANGED <<ttlAt, dirty, cache, db, now, wr, rd, productQueue, flushJob, fl, rs,
                 execCount, doneCount, pending>>
  /\ UNCHANGED <<rankVars, cartVars, boostVars, viewVars>>

\* trackEvent(dto), with `dto.quantity || 1`.
TrackEvent(p, type, quantity) == IncrementEventCounters(p, type, quantity)

\* queueEventJobs: productQueue.add("increment-views" | "increment-carts" |
\* "increment-orders"), then trackEvent returns.
QueueEventJobs ==
  /\ tr.pc = "queue"
  /\ Len(productQueue) < MaxQueue
  /\ productQueue' = Append(productQueue,
       [name |-> CASE tr.type = "view" -> "increment-views"
                   [] tr.type = "add_to_cart" -> "increment-carts"
                   [] OTHER -> "increment-orders",
        productId |-> tr.p,
        quantity |-> IF tr.type = "view" THEN 1 ELSE tr.quantity])
  /\ tr' = IdleTracker
  /\ UNCHANGED <<counters, ttlAt, dirty, cache, db, now, wr, rd, flushJob, fl, rs,
                 execCount, doneCount, recorded, pending, cycled, flushed>>
  /\ UNCHANGED <<rankVars, cartVars, boostVars, viewVars>>

\* queueEventJobs rejects (productQueue.add fails): trackEvent catches the
\* error and returns {tracked: false, buffered: false}.
QueueEventJobsFails ==
  /\ tr.pc = "queue"
  /\ tr' = IdleTracker
  /\ UNCHANGED <<counters, ttlAt, dirty, cache, db, now, wr, rd, productQueue, flushJob,
                 fl, rs, execCount, doneCount, recorded, pending, cycled, flushed>>
  /\ UNCHANGED <<rankVars, cartVars, boostVars, viewVars>>

\* ------------------------------------------------ StatsService.getStats
\* L1: redisService.getCache(K.cached(productId)); a hit is returned.
\* `since` records how many incrementStats calls on p had returned when
\* this call started, `ver` how many pipelines the returned snapshot includes.
GetStatsL1(r, p) ==
  /\ rd[r].pc = "idle"
  /\ rd' = [rd EXCEPT ![r] =
       IF p \in DOMAIN cache
       THEN [pc |-> "done", p |-> p, vals |-> cache[p].stats, ver |-> cache[p].ver,
             since |-> doneCount[p]]
       ELSE [pc |-> "L2", p |-> p, vals |-> ZeroDelta, ver |-> 0, since |-> doneCount[p]]]
  /\ UNCHANGED <<counters, ttlAt, dirty, cache, db, now, wr, tr, productQueue, flushJob,
                 fl, rs, execCount, doneCount, recorded, pending, cycled, flushed>>
  /\ UNCHANGED <<rankVars, cartVars, boostVars, viewVars>>

\* L2: the MULTI of six GETs, results.map(Number); then the test
\* `!views && !clicks && !carts` chooses the database fallback.
GetStatsL2(r) ==
  /\ rd[r].pc = "L2"
  /\ LET v == ReadCounters(counters[rd[r].p]) IN
       rd' = [rd EXCEPT ![r].vals = v,
                        ![r].ver = execCount[rd[r].p],
                        ![r].pc = IF v["views"] = 0 /\ v["clicks"] = 0 /\ v["carts"] = 0
                                  THEN "L3" ELSE "set"]
  /\ UNCHANGED <<counters, ttlAt, dirty, cache, db, now, wr, tr, productQueue, flushJob,
                 fl, rs, execCount, doneCount, recorded, pending, cycled, flushed>>
  /\ UNCHANGED <<rankVars, cartVars, boostVars, viewVars>>

\* L3: productStatistics.findOne; a row replaces the six values.
GetStatsL3(r) ==
  /\ rd[r].pc = "L3"
  /\ rd' = [rd EXCEPT ![r] =
       IF rd[r].p \in DOMAIN db
       THEN [@ EXCEPT !.vals = RowVals(db[rd[r].p]), !.pc = "seed"]
       ELSE [@ EXCEPT !.pc = "set"]]
  /\ UNCHANGED <<counters, ttlAt, dirty, cache, db, now, wr, tr, productQueue, flushJob,
                 fl, rs, execCount, doneCount, recorded, pending, cycled, flushed>>
  /\ UNCHANGED <<rankVars, cartVars, boostVars, viewVars>>

\* A faulty fallback: the row is returned but the counters are not re-seeded.
SeedRedisSkipped(r) ==
  /\ rd[r].pc = "seed"
  /\ rd' = [rd EXCEPT ![r].pc = "set"]
  /\ UNCHANGED <<counters, ttlAt, dirty, cache, db, now, wr, tr, productQueue, flushJob,
                 fl, rs, execCount, doneCount, recorded, pending, cycled, flushed>>
  /\ UNCHANGED <<rankVars, cartVars, boostVars, viewVars>>

\* seedRedisFromDB(row): SETEX of the six counter keys from the row.
SeedRedisFromDB(r) ==
  /\ rd[r].pc = "seed"
  /\ counters' = [counters EXCEPT ![rd[r].p] = SetExAll(rd[r].vals)]
  /\ ttlAt' = [ttlAt EXCEPT ![rd[r].p] = now]
  /\ rd' = [rd EXCEPT ![r].pc = "set"]
  /\ IF ReadCounters(counters[rd[r].p]) = rd[r].vals
     THEN UNCHANGED <<flushed, cycled>> ELSE Touched(rd[r].p)
  /\ UNCHANGED <<dirty, cache, db, now, wr, tr, productQueue, flushJob, fl, rs,
                 execCount, doneCount, recorded, pending>>
  /\ UNCHANGED <<rankVars, cartVars, boostVars, viewVars>>

\* A faulty last step: the response is returned without being cached.
GetStatsSetCacheSkipped(r) ==
  /\ rd[r].pc = "set"
  /\ rd' = [rd EXCEPT ![r].pc = "done", ![r].vals = StatsOf(rd[r].p, rd[r].vals)]
  /\ UNCHANGED <<counters, ttlAt, dirty, cache, db, now, wr, tr, productQueue, flushJob, fl,
                 rs, execCount, doneCount, recorded, pending, cycled, flushed>>
  /\ UNCHANGED <<rankVars, cartVars, boostVars, viewVars>>

\* setCacheWithTTL(K.cached(productId), JSON.stringify(stats), CACHE_TTL); return stats.
GetStatsSetCache(r) ==
  /\ rd[r].pc = "set"
  /\ cache' = Put(cache, rd[r].p, [stats |-> StatsOf(rd[r].p, rd[r].vals), ver |-> rd[r].ver])
  /\ rd' = [rd EXCEPT ![r].pc = "done", ![r].vals = StatsOf(rd[r].p, rd[r].vals)]
  /\ UNCHANGED <<counters, ttlAt, dirty, db, now, wr, tr, productQueue, flushJob, fl, rs,
                 execCount, doneCount, recorded, pending, cycled, flushed>>
  /\ UNCHANGED <<rankVars, cartVars, boostVars, viewVars>>

\* The caller has its response; the reader is free again.
GetStatsReturn(r) ==
  /\ rd[r].pc = "done"
  /\ rd' = [rd EXCEPT ![r] = IdleReader]
  /\ UNCHANGED <<counters, ttlAt, dirty, cache, db, now, wr, tr, productQueue, flushJob,
                 fl, rs, execCount, doneCount, recorded, pending, cycled, flushed>>
  /\ UNCHANGED <<rankVars, cartVars, boostVars, viewVars>>

GetStats(r, p) ==
  \/ GetStatsL1(r, p)
  \/ GetStatsL2(r)
  \/ GetStatsL3(r)
  \/ SeedRedisFromDB(r)
  \/ GetStatsSetCache(r)
  \/ GetStatsReturn(r)

\* ------------------------------------------------ the fast tier loses keys
\* The counter keys of a product expire (COUNTER_TTL) or are evicted.
Evict(p) ==
  /\ DOMAIN counters[p] # {}
  /\ counters' = [counters EXCEPT ![p] = NoKeys]
  /\ ttlAt' = [ttlAt EXCEPT ![p] = -1]
  /\ IF ReadCounters(counters[p]) = ZeroDelta
     THEN UNCHANGED <<flushed, cycled>> ELSE Touched(p)
  /\ UNCHANGED <<dirty, cache, db, now, wr, rd, tr, productQueue, flushJob, fl, rs,
                 execCount, doneCount, recorded, pending>>
  /\ UNCHANGED <<rankVars, cartVars, boostVars, viewVars>>

\* The cached response of a product expires (CACHE_TTL).
ExpireCache(p) ==
  /\ p \in DOMAIN cache
  /\ cache' = Del(cache, p)
  /\ UNCHANGED <<counters, ttlAt, dirty, db, now, wr, rd, tr, productQueue, flushJob, fl,
                 rs, execCount, doneCount, recorded, pending, cycled, flushed>>
  /\ UNCHANGED <<rankVars, cartVars, boostVars, viewVars>>

\* Date.now() advances.
Tick ==
  /\ now < MaxTime
  /\ now' = now + 1
  /\ UNCHANGED <<counters, ttlAt, dirty, cache, db, wr, rd, tr, productQueue, flushJob, fl,
                 rs, execCount, doneCount, recorded, pending, cycled, flushed>>
  /\ UNCHANGED <<rankVars, cartVars, boostVars, viewVars>>

\* ------------------------------------------------ StatsService.resetStats
\* productStatistics.update({productId}, zeros)
ResetStatsUpdate(p) ==
  /\ rs.pc = "idle"
  /\ db' = IF p \in DOMAIN db THEN Put(db, p, ZeroRow) ELSE db
  /\ rs' = [pc |-> "redis", p |-> p]
  /\ UNCHANGED <<counters, ttlAt, dirty, cache, now, wr, rd, tr, productQueue, flushJob,
                 fl, execCount, doneCount, recorded, pending, cycled, flushed>>
  /\ UNCHANGED <<rankVars, cartVars, boostVars, viewVars>>

\* initializeRedisCounters(productId): SETEX of the six keys to "0".
InitializeRedisCounters ==
  /\ rs.pc = "redis"
  /\ counters' = [counters EXCEPT ![rs.p] = SetExAll(ZeroDelta)]
  /\ ttlAt' = [ttlAt EXCEPT ![rs.p] = now]
  /\ rs' = [rs EXCEPT !.pc = "cache"]
  /\ IF ReadCounters(counters[rs.p]) = ZeroDelta
     THEN UNCHANGED <<flushed, cycled>> ELSE Touched(rs.p)
  /\ UNCHANGED <<dirty, cache, db, now, wr, rd, tr, productQueue, flushJob, fl,
                 execCount, doneCount, recorded, pending>>
  /\ UNCHANGED <<rankVars, cartVars, boostVars, viewVars>>

\* A faulty last step: the cached response is left in place.
ResetStatsKeepsCache ==
  /\ rs.pc = "cache"
  /\ rs' = IdleReset
  /\ UNCHANGED <<counters, ttlAt, dirty, cache, db, now, wr, rd, tr, productQueue, flushJob,
                 fl, execCount, doneCount, recorded, pending, cycled, flushed>>
  /\ UNCHANGED <<rankVars, cartVars, boostVars, viewVars>>

\* redisService.del(K.cached(productId))
ResetStatsDelCache ==
  /\ rs.pc = "cache"
  /\ cache' = Del(cache, rs.p)
  /\ rs' = IdleReset
  /\ UNCHANGED <<counters, ttlAt, dirty, db, now, wr, rd, tr, productQueue, flushJob, fl,
                 execCount, doneCount, recorded, pending, cycled, flushed>>
  /\ UNCHANGED <<rankVars, cartVars, boostVars, viewVars>>

ResetStats(p) ==
  \/ ResetStatsUpdate(p)
  \/ InitializeRedisCounters
  \/ ResetStatsDelCache

\* ------------------------------------------- StatsService.syncRedisToDatabase
\* getProductIdsWithStats: SCAN stats:product:*:views
GetProductIdsWithStats == {p \in Products : "views" \in DOMAIN counters[p]}

RECURSIVE ZAddAll(_, _, _)
ZAddAll(z, ids, score) ==
  IF ids = {} THEN z
  ELSE LET p == CHOOSE x \in ids : TRUE IN ZAddAll(ZAdd(z, p, score), ids \ {p}, score)

RECURSIVE ZAddAllNX(_, _, _)
ZAddAllNX(z, ids, score) ==
  IF ids = {} THEN z
  ELSE LET p == CHOOSE x \in ids : TRUE IN ZAddAllNX(ZAddNX(z, p, score), ids \ {p}, score)

\* The ids (given, or scanned when none is given) are ZADDed to the dirty
\* set, one MULTI per chunk of SYNC_BATCH_SIZE (one chunk here); the call
\* to flushDirtyStats is disabled, and the number of ids is returned.
SyncRedisToDatabase(productIds) ==
  /\ LET idsToSync == IF productIds # {} THEN productIds ELSE GetProductIdsWithStats IN
       dirty' = ZAddAll(dirty, idsToSync, now)
  /\ UNCHANGED <<counters, ttlAt, cache, db, now, wr, rd, tr, productQueue, flushJob, fl,
                 rs, execCount, doneCount, recorded, pending, cycled, flushed>>
  /\ UNCHANGED <<rankVars, cartVars, boostVars, viewVars>>

\* batchIncrementStats(updates), here {views: 1} for each product of `ids`:
\* one MULTI with, per update, the INCRBYs, ZADD NX of the product at the
\* call's `now` and DEL of its cached response; no ZCARD follows.
BatchIncrementStats(ids) ==
  /\ ids # {}
  /\ \A p \in ids : execCount[p] < MaxCalls /\ InRange(IncrBy(counters[p], Delta("views", 1)))
  /\ counters' = [p \in Products |->
                    IF p \in ids THEN IncrBy(counters[p], Delta("views", 1)) ELSE counters[p]]
  /\ dirty' = ZAddAllNX(dirty, ids, now)
  /\ cache' = [p \in DOMAIN cache \ ids |-> cache[p]]
  /\ execCount' = [p \in Products |-> IF p \in ids THEN execCount[p] + 1 ELSE execCount[p]]
  /\ doneCount' = [p \in Products |-> IF p \in ids THEN doneCount[p] + 1 ELSE doneCount[p]]
  /\ pending' = [p \in Products |-> pending[p] \/ p \in ids]
  /\ flushed' = [p \in DOMAIN flushed \ ids |-> flushed[p]]
  /\ cycled' = [p \in Products |-> cycled[p] /\ p \notin ids]
  /\ UNCHANGED <<ttlAt, db, now, wr, rd, tr, productQueue, flushJob, fl, rs, recorded>>
  /\ UNCHANGED <<rankVars, cartVars, boostVars, viewVars>>

\* ------------------------------------------------ the flush cycle
\* popMinMembers: the (at most n) members of lowest score, removed from the
\* set by the same command.
PopMinMembers(z, n) ==
  {p \in DOMAIN z :
     Cardinality({q \in DOMAIN z : z[q] < z[p] \/ (z[q] = z[p] /\ q < p)}) < n}

\* scheduledFlush, cron "*/10 * * * * *": its body is empty.  `cycled`
\* records the products a cycle of the timer was due to claim.
ScheduledFlush ==
  /\ cycled' = [p \in Products |-> cycled[p] \/ p \in PopMinMembers(dirty, BATCH_MAX)]
  /\ UNCHANGED <<counters, ttlAt, dirty, cache, db, now, wr, rd, tr, productQueue,
                 flushJob, fl, rs, execCount, doneCount, recorded, pending, flushed>>
  /\ UNCHANGED <<rankVars, cartVars, boostVars, viewVars>>

\* A faulty claim: the ids are read (ZRANGE) but not removed.
FlushClaimPeek(f) ==
  /\ fl[f].pc = "idle"
  /\ flushJob \in {"waiting", "active"}
  /\ LET ids == PopMinMembers(dirty, BATCH_MAX) IN
       IF ids = {}
       THEN /\ flushJob' = "completed"
            /\ fl' = fl
       ELSE /\ flushJob' = "active"
            /\ fl' = [fl EXCEPT ![f] = [pc |-> "read", ids |-> ids, vals |-> NoKeys,
                                       prev |-> NoKeys]]
  /\ UNCHANGED <<counters, ttlAt, dirty, cache, db, now, wr, rd, tr, productQueue, rs,
                 execCount, doneCount, recorded, pending, cycled, flushed>>
  /\ UNCHANGED <<rankVars, cartVars, boostVars, viewVars>>

\* 1. Claim: a worker takes the stats-flush job (or is handed it again:
\* at-least-once delivery) and pops up to BATCH_MAX ids from the dirty set.
FlushClaim(f) ==
  /\ fl[f].pc = "idle"
  /\ flushJob \in {"waiting", "active"}
  /\ LET ids == PopMinMembers(dirty, BATCH_MAX) IN
       /\ dirty' = [q \in DOMAIN dirty \ ids |-> dirty[q]]
       /\ IF ids = {}
          THEN /\ flushJob' = "completed"
               /\ fl' = fl
          ELSE /\ flushJob' = "active"
               /\ fl' = [fl EXCEPT ![f] = [pc |-> "read", ids |-> ids, vals |-> NoKeys,
                                          prev |-> NoKeys]]
  /\ UNCHANGED <<counters, ttlAt, cache, db, now, wr, rd, tr, productQueue, rs,
                 execCount, doneCount, recorded, pending, cycled, flushed>>
  /\ UNCHANGED <<rankVars, cartVars, boostVars, viewVars>>

\* 2. Read: the counters of every claimed id, one round trip.
FlushRead(f) ==
  /\ fl[f].pc = "read"
  /\ fl' = [fl EXCEPT ![f].pc = "upsert",
                      ![f].vals = [p \in fl[f].ids |-> ReadCounters(counters[p])],
                      ![f].prev = [p \in fl[f].ids \cap DOMAIN flushed |-> flushed[p]]]
  /\ UNCHANGED <<counters, ttlAt, dirty, cache, db, now, wr, rd, tr, productQueue,
                 flushJob, rs, execCount, doneCount, recorded, pending, cycled, flushed>>
  /\ UNCHANGED <<rankVars, cartVars, boostVars, viewVars>>

\* A faulty upsert: on conflict the values are added to the row's.
UpsertStatsAccumulate(rows, vals) ==
  [p \in DOMAIN rows \cup DOMAIN vals |->
     IF p \in DOMAIN vals
     THEN IF p \in DOMAIN rows
          THEN ToRow([m \in Metrics |-> RowVals(rows[p])[m] + vals[p][m]])
          ELSE ToRow(vals[p])
     ELSE rows[p]]

\* The rows after the multi-row upsert: insert, or overwrite on conflict.
UpsertStatsBatch(rows, vals) ==
  [p \in DOMAIN rows \cup DOMAIN vals |->
     IF p \in DOMAIN vals THEN ToRow(vals[p]) ELSE rows[p]]

\* 3. Upsert succeeds.
FlushUpsert(f) ==
  /\ fl[f].pc = "upsert"
  /\ db' = UpsertStatsBatch(db, fl[f].vals)
  /\ fl' = [fl EXCEPT ![f].pc = "ttl"]
  /\ pending' = [p \in Products |->
                   IF p \in fl[f].ids
                   THEN ReadCounters(counters[p]) # fl[f].vals[p] ELSE pending[p]]
  /\ flushed' = [p \in (DOMAIN flushed \ fl[f].ids) \cup
                       {q \in fl[f].ids : ReadCounters(counters[q]) = fl[f].vals[q]} |->
                   IF p \in fl[f].ids THEN ToRow(fl[f].vals[p]) ELSE flushed[p]]
  /\ UNCHANGED <<counters, ttlAt, dirty, cache, now, wr, rd, tr, productQueue, flushJob,
                 rs, execCount, doneCount, recorded, cycled>>
  /\ UNCHANGED <<rankVars, cartVars, boostVars, viewVars>>

\* 4. Refresh TTL of the flushed products' counters; the cycle ends.
FlushRefreshTtl(f) ==
  /\ fl[f].pc = "ttl"
  /\ ttlAt' = [p \in Products |->
                 IF p \in fl[f].ids /\ DOMAIN counters[p] # {} THEN now ELSE ttlAt[p]]
  /\ fl' = [fl EXCEPT ![f] = IdleFlusher]
  /\ flushJob' = "completed"
  /\ UNCHANGED <<counters, dirty, cache, db, now, wr, rd, tr, productQueue, rs,
                 execCount, doneCount, recorded, pending, cycled, flushed>>
  /\ UNCHANGED <<rankVars, cartVars, boostVars, viewVars>>

\* 5. The durable write fails: nothing is written.
FlushUpsertFails(f) ==
  /\ fl[f].pc = "upsert"
  /\ fl' = [fl EXCEPT ![f].pc = "retry"]
  /\ UNCHANGED <<counters, ttlAt, dirty, cache, db, now, wr, rd, tr, productQueue,
                 flushJob, rs, execCount, doneCount, recorded, pending, cycled, flushed>>
  /\ UNCHANGED <<rankVars, cartVars, boostVars, viewVars>>

\* A faulty failure path: the claimed ids are not re-added.
FlushRetryForgets(f) ==
  /\ fl[f].pc = "retry"
  /\ fl' = [fl EXCEPT ![f] = [IdleFlusher EXCEPT !.pc = "failed", !.ids = fl[f].ids]]
  /\ flushJob' = "failed"
  /\ UNCHANGED <<counters, ttlAt, dirty, cache, db, now, wr, rd, tr, productQueue, rs,
                 execCount, doneCount, recorded, pending, cycled, flushed>>
  /\ UNCHANGED <<rankVars, cartVars, boostVars, viewVars>>

\* 5. ... and every claimed id is re-added to the dirty set; the cycle ends.
FlushRetry(f) ==
  /\ fl[f].pc = "retry"
  /\ dirty' = ZAddAllNX(dirty, fl[f].ids, now)
  /\ fl' = [fl EXCEPT ![f] = [IdleFlusher EXCEPT !.pc = "failed", !.ids = fl[f].ids]]
  /\ flushJob' = "failed"
  /\ UNCHANGED <<counters, ttlAt, cache, db, now, wr, rd, tr, productQueue, rs,
                 execCount, doneCount, recorded, pending, cycled, flushed>>
  /\ UNCHANGED <<rankVars, cartVars, boostVars, viewVars>>

\* The failed cycle has returned.
FlushEnd(f) ==
  /\ fl[f].pc = "failed"
  /\ fl' = [fl EXCEPT ![f] = IdleFlusher]
  /\ UNCHANGED <<counters, ttlAt, dirty, cache, db, now, wr, rd, tr, productQueue,
                 flushJob, rs, execCount, doneCount, recorded, pending, cycled, flushed>>
  /\ UNCHANGED <<rankVars, cartVars, boostVars, viewVars>>

FlushDirtyStats(f) ==
  \/ FlushClaim(f)
  \/ FlushRead(f)
  \/ FlushUpsert(f)
  \/ FlushRefreshTtl(f)
  \/ FlushUpsertFails(f)
  \/ FlushRetry(f)
  \/ FlushEnd(f)


\* ------------------------------------------------ sorted sets (RedisService)
\* ZREM
ZRem(z, p) == Del(z, p)

\* The order of a sorted set: by score, members of equal score by member.
Before(z, q, p) == z[q] < z[p] \/ (z[q] = z[p] /\ q < p)

\* The members in ascending order, as ZRANGE counts them from index 0.
RECURSIVE Ascending(_)
Ascending(z) ==
  IF DOMAIN z = {} THEN <<>>
  ELSE LET first == CHOOSE p \in DOMAIN z : \A q \in DOMAIN z \ {p} : Before(z, p, q)
       IN <<first>> \o Ascending(Del(z, first))

Min(a, b) == IF a < b THEN a ELSE b
Max(a, b) == IF a > b THEN a ELSE b

\* redisService.zrange(key, start, stop) = client.zRange(key, start, stop):
\* the members at indexes start..stop (both inclusive) of the ascending
\* order; no REV option is passed.
ZRange(z, start, stop) ==
  SubSeq(Ascending(z), start + 1, Min(stop + 1, Cardinality(DOMAIN z)))

\* redisService.zRevRank: the 0-based rank counted from the highest score,
\* null (NoDate) for a member that is absent.
ZRevRank(z, p) ==
  IF p \in DOMAIN z
  THEN Cardinality({q \in DOMAIN z \ {p} : Before(z, p, q)})
  ELSE NoDate

\* ------------------------------------------------ RankingsService
\* Scores of the trending index are kept in tenths (recencyWeight 0.1 is 1).
weights == [viewWeight |-> 1, wishlistWeight |-> 3, cartWeight |-> 5, orderWeight |-> 10,
            boostMultiplier |-> 2, recencyWeight |-> 1]

\* isBoostActive(boost), with `now = new Date()`.
isBoostActive(boost, today) ==
  /\ boost.status = "active"
  /\ ~(boost.startDate # NoDate /\ today < boost.startDate)
  /\ ~(boost.endDate # NoDate /\ today > boost.endDate)

\* calculateTrendingScore(stats, boost, createdDaysAgo), in tenths.
calculateTrendingScore(stats, boost, createdDaysAgo, today) ==
  LET baseScore == stats.totalViews * weights.viewWeight
                     + stats.totalCarts * weights.wishlistWeight
                     + stats.clicks * weights.cartWeight
                     + stats.totalOrders * weights.orderWeight
      boostMultiplier == IF boost.status # "none" /\ isBoostActive(boost, today)
                         THEN weights.boostMultiplier ELSE 1
      recencyScore == Max(0, 30 - createdDaysAgo) * weights.recencyWeight
  IN (baseScore * 10 + recencyScore) * boostMultiplier

\* hasActiveDiscount(product), with `now = new Date()`.
hasActiveDiscount(product, today) ==
  /\ product.discountPercentage # 0
  /\ ~(product.discountStartDate # NoDate /\ today < product.discountStartDate)
  /\ ~(product.discountEndDate # NoDate /\ today > product.discountEndDate)

\* new Date(product.id): the id read as milliseconds since 1970, day 0.
IdAsDay(p) == 0

\* findOne / find return the product (soft-deleted rows are not found).
Found(p) == products[p].deletedAt = NoDate

\* updateProductRanking(productId), reading the stats rows `rows`: findOne
\* with the relations stats and boosting; "not found" returns; without a
\* stats row `stats.totalViews` throws and the catch logs; else
\* zadd(TRENDING_KEY), zadd or zdel on DISCOUNTED_KEY, and
\* zadd(NEW_ARRIVALS_KEY, Date.now()) when createdDaysAgo <= 30.
UpdateProductRankingOn(p, rows) ==
  LET product == products[p]
      createdDaysAgo == Today - IdAsDay(p)
  IN IF ~Found(p)
     THEN /\ ur' = [p |-> p, outcome |-> "not found", at |-> Today]
          /\ UNCHANGED <<trending, discounted, newArrivals>>
     ELSE IF p \notin DOMAIN rows
     THEN /\ ur' = [p |-> p, outcome |-> "failed", at |-> Today]
          /\ UNCHANGED <<trending, discounted, newArrivals>>
     ELSE /\ trending' = ZAdd(trending, p,
                 calculateTrendingScore(rows[p], product.boosting, createdDaysAgo, Today))
          /\ discounted' = IF hasActiveDiscount(product, Today)
                           THEN ZAdd(discounted, p, product.discountPercentage)
                           ELSE ZRem(discounted, p)
          /\ newArrivals' = IF createdDaysAgo <= 30
                            THEN ZAdd(newArrivals, p, Today) ELSE newArrivals
          /\ ur' = [p |-> p, outcome |-> "updated", at |-> Today]

\* A call of updateProductRanking by a product-queue handler
\* (handleProductUpdated, handleBoostActivated, ...).
UpdateProductRanking(p) ==
  /\ UpdateProductRankingOn(p, db)
  /\ UNCHANGED <<statsVars, products, popular, rb, cartVars, boostVars, viewVars>>

\* incrementViewsAndUpdateRanking: productStatRepository.increment(
\* {productId}, "totalViews", 1), an UPDATE of the row if there is one, then
\* updateProductRanking(productId).
IncrementViewsAndUpdateRanking(w) ==
  /\ wr[w].pc = "ranking"
  /\ db' = IF wr[w].p \in DOMAIN db
           THEN [db EXCEPT ![wr[w].p].totalViews = @ + 1] ELSE db
  /\ UpdateProductRankingOn(wr[w].p, db')
  /\ wr' = [wr EXCEPT ![w] = IdleWriter]
  /\ UNCHANGED <<counters, ttlAt, dirty, cache, now, rd, tr, productQueue, flushJob, fl,
                 rs, execCount, doneCount, recorded, pending, cycled, flushed>>
  /\ UNCHANGED <<products, popular, rb, cartVars, boostVars, viewVars>>

\* A faulty cleanup: the trending range has no upper end.
CleanupRemovesScored ==
  /\ newArrivals' = [p \in {q \in DOMAIN newArrivals :
                              newArrivals[q] < 0 \/ newArrivals[q] > Today - 30} |->
                       newArrivals[p]]
  /\ trending' = [p \in {q \in DOMAIN trending : trending[q] < 0} |-> trending[p]]
  /\ UNCHANGED <<statsVars, products, discounted, popular, ur, rb, cartVars, boostVars, viewVars>>

\* cleanupOldRankings, @Cron(EVERY_DAY_AT_MIDNIGHT):
\* zRemoveRangeByScore(NEW_ARRIVALS_KEY, 0, thirtyDaysAgo) and
\* zRemoveRangeByScore(TRENDING_KEY, 0, 0); both ends of a range are inclusive.
CleanupOldRankings ==
  /\ newArrivals' = [p \in {q \in DOMAIN newArrivals :
                              newArrivals[q] < 0 \/ newArrivals[q] > Today - 30} |->
                       newArrivals[p]]
  /\ trending' = [p \in {q \in DOMAIN trending : trending[q] < 0 \/ trending[q] > 0} |->
                    trending[p]]
  /\ UNCHANGED <<statsVars, products, discounted, popular, ur, rb, cartVars, boostVars, viewVars>>

\* rebuildAllRankings, @Cron(EVERY_HOUR): productRepository.find; `products`,
\* `db` and `now` of the call state record what the rebuild started from.
RebuildAllRankingsFind ==
  /\ rb.pc = "idle"
  /\ rb' = [pc |-> "batch", ids |-> {p \in Products : Found(p)},
            products |-> products, db |-> db, now |-> now]
  /\ UNCHANGED <<statsVars, products, trending, discounted, newArrivals, popular, ur, cartVars, boostVars, viewVars>>

\* A faulty batch: a product whose update fails ends the batch.
BatchUpdateRankingsAborts(p) ==
  /\ rb.pc = "batch"
  /\ p \in rb.ids
  /\ rb' = [rb EXCEPT !.ids = IF p \in DOMAIN db THEN @ \ {p} ELSE {}]
  /\ UpdateProductRankingOn(p, db)
  /\ UNCHANGED <<statsVars, products, popular, cartVars, boostVars, viewVars>>

\* batchUpdateRankings: updateProductRanking(id) for every id of the batch,
\* in any order (Promise.all).
BatchUpdateRankings(p) ==
  /\ rb.pc = "batch"
  /\ p \in rb.ids
  /\ rb' = [rb EXCEPT !.ids = @ \ {p}]
  /\ UpdateProductRankingOn(p, db)
  /\ UNCHANGED <<statsVars, products, popular, cartVars, boostVars, viewVars>>

\* Every call of the batch has returned: "Completed ranking rebuild".
RebuildAllRankingsDone ==
  /\ rb.pc = "batch"
  /\ rb.ids = {}
  /\ rb' = [rb EXCEPT !.pc = "done"]
  /\ UNCHANGED <<statsVars, products, trending, discounted, newArrivals, popular, ur, cartVars, boostVars, viewVars>>

RebuildAllRankingsReturn ==
  /\ rb.pc = "done"
  /\ rb' = IdleRebuild
  /\ UNCHANGED <<statsVars, products, trending, discounted, newArrivals, popular, ur, cartVars, boostVars, viewVars>>

RebuildAllRankings ==
  \/ RebuildAllRankingsFind
  \/ \E p \in Products : BatchUpdateRankings(p)
  \/ RebuildAllRankingsDone
  \/ RebuildAllRankingsReturn

\* getTrendingProducts(limit, offset): zrange(TRENDING_KEY, offset, limit)
GetTrendingProducts(limit, offset) == ZRange(trending, offset, limit)

\* getDiscountedProducts(limit, offset): zrange(DISCOUNTED_KEY, offset, offset + limit - 1)
GetDiscountedProducts(limit, offset) == ZRange(discounted, offset, offset + limit - 1)

\* getNewArrivals(limit, offset): zrange(NEW_ARRIVALS_KEY, offset, offset + limit - 1)
GetNewArrivals(limit, offset) == ZRange(newArrivals, offset, offset + limit - 1)

\* getProductTrendingRank(productId): zRevRank + 1, or null.
GetProductTrendingRank(p) ==
  IF ZRevRank(trending, p) # NoDate THEN ZRevRank(trending, p) + 1 ELSE NoDate

\* ------------------------------------------------ product lifecycle
\* A save that writes the zeroed row over the product's row.
SaveProductStatOver(rows, p) == Put(rows, p, ZeroRow)

\* productStatistics.save(product) of a new entity: INSERT into
\* product_stats.  productId is the join column of the one-to-one relation
\* to Product and so unique: a second row of the product is rejected.
SaveProductStat(rows, p) == IF p \in DOMAIN rows THEN rows ELSE Put(rows, p, ZeroRow)

\* The product-created job: StatsService.create saves the zeroed stats row ...
StatsCreateSave(p) ==
  /\ products[p].created = "saved"
  /\ p \notin DOMAIN db
  /\ db' = SaveProductStat(db, p)
  /\ products' = [products EXCEPT ![p].created = "row"]
  /\ UNCHANGED <<counters, ttlAt, dirty, cache, now, wr, rd, tr, productQueue, flushJob, fl,
                 rs, execCount, doneCount, recorded, pending, cycled, flushed>>
  /\ UNCHANGED <<trending, discounted, newArrivals, popular, ur, rb, cartVars, boostVars, viewVars>>

\* ... and initializes the six counters.
StatsCreateCounters(p) ==
  /\ products[p].created = "row"
  /\ counters' = [counters EXCEPT ![p] = SetExAll(ZeroDelta)]
  /\ ttlAt' = [ttlAt EXCEPT ![p] = now]
  /\ products' = [products EXCEPT ![p].created = "done"]
  /\ IF ReadCounters(counters[p]) = ZeroDelta
     THEN UNCHANGED <<flushed, cycled>> ELSE Touched(p)
  /\ UNCHANGED <<dirty, cache, db, now, wr, rd, tr, productQueue, flushJob, fl,
                 rs, execCount, doneCount, recorded, pending>>
  /\ UNCHANGED <<trending, discounted, newArrivals, popular, ur, rb, cartVars, boostVars, viewVars>>

\* The product-created job delivered again (at-least-once delivery) after
\* the row was saved: save throws on the duplicate productId, create
\* rethrows before initializeRedisCounters and the job fails.
StatsCreateRedelivered(p) ==
  /\ products[p].created \in {"row", "done"}
  /\ db' = SaveProductStat(db, p)
  /\ IF db' # db
     THEN /\ counters' = [counters EXCEPT ![p] = SetExAll(ZeroDelta)]
          /\ ttlAt' = [ttlAt EXCEPT ![p] = now]
     ELSE UNCHANGED <<counters, ttlAt>>
  /\ UNCHANGED <<dirty, cache, now, wr, rd, tr, productQueue, flushJob, fl,
                 rs, execCount, doneCount, recorded, pending, cycled, flushed>>
  /\ UNCHANGED <<rankVars, cartVars, boostVars, viewVars>>

\* ProductsService.remove(id): findOne, softDelete(id), then
\* productQueue.add("invalidate-cache").  Product declares no
\* @DeleteDateColumn: softDelete rejects and remove ends there with the
\* error; where the soft delete goes through, the row is marked deleted and
\* the job is enqueued.
ProductsRemove(p) ==
  /\ Found(p)
  /\ \/ /\ products' = [products EXCEPT ![p].removed = "failed"]
        /\ UNCHANGED productQueue
     \/ /\ Len(productQueue) < MaxQueue
        /\ products' = [products EXCEPT ![p].deletedAt = Today, ![p].removed = "deleted"]
        /\ productQueue' = Append(productQueue,
                                  [name |-> "invalidate-cache", productId |-> p, quantity |-> 0])
  /\ UNCHANGED <<counters, ttlAt, dirty, cache, db, now, wr, rd, tr, flushJob, fl,
                 rs, execCount, doneCount, recorded, pending, cycled, flushed>>
  /\ UNCHANGED <<trending, discounted, newArrivals, popular, ur, rb, cartVars, boostVars, viewVars>>

\* handleCacheInvalidation: delCache(`stats:cached:${productId}`) (and the
\* product-list caches).
HandleCacheInvalidation ==
  /\ productQueue # <<>>
  /\ Head(productQueue).name = "invalidate-cache"
  /\ cache' = Del(cache, Head(productQueue).productId)
  /\ productQueue' = Tail(productQueue)
  /\ UNCHANGED <<counters, ttlAt, dirty, db, now, wr, rd, tr, flushJob, fl,
                 rs, execCount, doneCount, recorded, pending, cycled, flushed>>
  /\ UNCHANGED <<rankVars, cartVars, boostVars, viewVars>>

\* ------------------------------------------------ CartWorker
\* CART_ADD_JOB: persistAddItem (a new item, or `existing.quanity +=`), then
\* incrementStats({productId, carts: data.quantity}).
CartAddJob(w, p, quantity) ==
  /\ cartItems[p] + quantity <= MaxQuantity
  /\ cartItems' = [cartItems EXCEPT ![p] = @ + quantity]
  /\ IncrementStatsExec(w, p, Delta("carts", quantity), "direct")
  /\ UNCHANGED <<productQueue, boostVars, viewVars>>

\* CART_UPDATE_JOB: persistUpdateItem sets the quantity of the item; no
\* incrementStats.
CartUpdateJob(p, quantity) ==
  /\ cartItems[p] > 0
  /\ cartItems' = [cartItems EXCEPT ![p] = quantity]
  /\ UNCHANGED <<statsVars, rankVars, boostVars, viewVars>>

\* removeItem enqueues CART_REMOVE_JOB with quantity: item.quanity of the
\* item it found; the job: persistRemoveItem, then
\* incrementStats({productId, carts: -data.quantity}).
CartRemoveJob(w, p) ==
  /\ cartItems[p] > 0
  /\ cartItems' = [cartItems EXCEPT ![p] = 0]
  /\ IncrementStatsExec(w, p, Delta("carts", -cartItems[p]), "direct")
  /\ UNCHANGED <<productQueue, boostVars, viewVars>>

\* ------------------------------------------------ BoostsService
\* acquireLock(key, token, ttl): SET key token NX EX ttl
AcquireLock(l, p, token) == IF p \in DOMAIN l THEN l ELSE Put(l, p, token)

\* A faulty release: a plain DEL of the key.
ReleaseLockDel(l, p, token) == Del(l, p)

\* releaseLock(key, token): the Lua script, DEL only if GET key = token.
ReleaseLock(l, p, token) == IF p \in DOMAIN l /\ l[p] = token THEN Del(l, p) ELSE l

\* createBoost(dto): lockToken = `${Date.now()}-${Math.random()}`, one per
\* call; acquireLock, and "Boost operation in progress" when it fails.
CreateBoostAcquire(c, p) ==
  /\ bc[c].pc = "idle"
  /\ bc[c].calls < MaxCalls
  /\ LET token == <<c, bc[c].calls + 1>> IN
       /\ lock' = AcquireLock(lock, p, token)
       /\ bc' = [bc EXCEPT ![c] = [pc |-> IF p \in DOMAIN lock THEN "finally" ELSE "locked",
                                   p |-> p, token |-> token, calls |-> bc[c].calls + 1]]
  /\ UNCHANGED <<statsVars, rankVars, cartVars, boostQueue, viewVars>>

\* A faulty save: a boost row of the product that is not active is replaced.
CreateBoostSaveReplaces(c) ==
  /\ bc[c].pc = "locked"
  /\ LET p == bc[c].p
         boost == products[p].boosting
     IN IF boost.status = "active" /\ boost.endDate > Today
        THEN UNCHANGED <<products, boostQueue, productQueue>>
        ELSE /\ Len(productQueue) < MaxQueue
             /\ products' = [products EXCEPT ![p].boosting =
                               [status |-> "pending", startDate |-> Today, endDate |-> Today + 1]]
             /\ boostQueue' = boostQueue \cup {[name |-> "activate-boost", productId |-> p],
                                               [name |-> "expire-boost", productId |-> p]}
             /\ productQueue' = Append(productQueue, [name |-> "update-boost-stats",
                                                      productId |-> p, quantity |-> 1])
  /\ bc' = [bc EXCEPT ![c].pc = "finally"]
  /\ UNCHANGED <<counters, ttlAt, dirty, cache, db, now, wr, rd, tr, flushJob, fl, rs,
                 execCount, doneCount, recorded, pending, cycled, flushed>>
  /\ UNCHANGED <<trending, discounted, newArrivals, popular, ur, rb, cartVars, lock, viewVars>>

\* createBoost holding the lock: getActiveBoostByProduct ("Product already
\* has an active boost"); else boostRepository.save of a new PENDING boost
\* from now for durationDays = 1, with boostScore 1.  productId is the join
\* column of the one-to-one relation to Product and so unique: the save
\* throws when the product has a boost row, of whatever status.  After the
\* save "activate-boost" and the delayed "expire-boost" are added to the
\* boost queue and "update-boost-stats" (add) to the product queue.
CreateBoostSave(c) ==
  /\ bc[c].pc = "locked"
  /\ LET p == bc[c].p
         boost == products[p].boosting
     IN IF boost.status # "none"
        THEN UNCHANGED <<products, boostQueue, productQueue>>
        ELSE /\ Len(productQueue) < MaxQueue
             /\ products' = [products EXCEPT ![p].boosting =
                               [status |-> "pending", startDate |-> Today, endDate |-> Today + 1]]
             /\ boostQueue' = boostQueue \cup {[name |-> "activate-boost", productId |-> p],
                                               [name |-> "expire-boost", productId |-> p]}
             /\ productQueue' = Append(productQueue, [name |-> "update-boost-stats",
                                                      productId |-> p, quantity |-> 1])
  /\ bc' = [bc EXCEPT ![c].pc = "finally"]
  /\ UNCHANGED <<counters, ttlAt, dirty, cache, db, now, wr, rd, tr, flushJob, fl, rs,
                 execCount, doneCount, recorded, pending, cycled, flushed>>
  /\ UNCHANGED <<trending, discounted, newArrivals, popular, ur, rb, cartVars, lock, viewVars>>

\* finally: releaseLock(lockKey, lockToken), whether or not the lock was
\* acquired.
CreateBoostRelease(c) ==
  /\ bc[c].pc = "finally"
  /\ lock' = ReleaseLock(lock, bc[c].p, bc[c].token)
  /\ bc' = [bc EXCEPT ![c] = [IdleBoostCaller EXCEPT !.calls = bc[c].calls]]
  /\ UNCHANGED <<statsVars, rankVars, cartVars, boostQueue, viewVars>>

\* The key's EX BOOST_LOCK_TTL runs out.
LockExpires(p) ==
  /\ p \in DOMAIN lock
  /\ lock' = Del(lock, p)
  /\ UNCHANGED <<statsVars, rankVars, cartVars, boostQueue, bc, viewVars>>

\* handleActivateBoost -> activateBoost: a PENDING boost becomes ACTIVE.
ActivateBoost(p) ==
  /\ [name |-> "activate-boost", productId |-> p] \in boostQueue
  /\ boostQueue' = boostQueue \ {[name |-> "activate-boost", productId |-> p]}
  /\ products' = IF products[p].boosting.status = "pending"
                 THEN [products EXCEPT ![p].boosting.status = "active"] ELSE products
  /\ UNCHANGED <<statsVars, trending, discounted, newArrivals, popular, ur, rb, cartVars, lock, bc, viewVars>>

\* handleExpireBoost -> expireBoost, once the job's delay (durationDays) is
\* over: a boost that is not EXPIRED becomes EXPIRED and
\* "update-boost-stats" (remove) is added to the product queue.
ExpireBoost(p) ==
  /\ [name |-> "expire-boost", productId |-> p] \in boostQueue
  /\ Today >= products[p].boosting.endDate
  /\ boostQueue' = boostQueue \ {[name |-> "expire-boost", productId |-> p]}
  /\ IF products[p].boosting.status \in {"none", "expired"}
     THEN UNCHANGED <<products, productQueue>>
     ELSE /\ Len(productQueue) < MaxQueue
          /\ products' = [products EXCEPT ![p].boosting.status = "expired"]
          /\ productQueue' = Append(productQueue, [name |-> "update-boost-stats",
                                                   productId |-> p, quantity |-> -1])
  /\ UNCHANGED <<counters, ttlAt, dirty, cache, db, now, wr, rd, tr, flushJob, fl, rs,
                 execCount, doneCount, recorded, pending, cycled, flushed>>
  /\ UNCHANGED <<trending, discounted, newArrivals, popular, ur, rb, cartVars, lock, bc, viewVars>>

\* cancelBoost(boostId, userId): "Boost is already inactive" for a CANCELED
\* or EXPIRED boost, else the boost becomes CANCELED and
\* "update-boost-stats" (remove) is added to the product queue.
CancelBoost(p) ==
  /\ products[p].boosting.status \in {"pending", "active"}
  /\ Len(productQueue) < MaxQueue
  /\ products' = [products EXCEPT ![p].boosting.status = "canceled"]
  /\ productQueue' = Append(productQueue, [name |-> "update-boost-stats",
                                           productId |-> p, quantity |-> -1])
  /\ UNCHANGED <<counters, ttlAt, dirty, cache, db, now, wr, rd, tr, flushJob, fl, rs,
                 execCount, doneCount, recorded, pending, cycled, flushed>>
  /\ UNCHANGED <<trending, discounted, newArrivals, popular, ur, rb, cartVars, boostVars, viewVars>>

\* An "update-boost-stats" job at the head of the product queue: the
\* processor of that queue has no handler of the name (handleUpdateBoostStats
\* is registered on "boost-queue"), and the job fails.
MissingProcessHandler ==
  /\ productQueue # <<>>
  /\ Head(productQueue).name = "update-boost-stats"
  /\ productQueue' = Tail(productQueue)
  /\ UNCHANGED <<counters, ttlAt, dirty, cache, db, now, wr, rd, tr, flushJob, fl, rs,
                 execCount, doneCount, recorded, pending, cycled, flushed>>
  /\ UNCHANGED <<rankVars, cartVars, boostVars, viewVars>>

\* ------------------------------------------------------- specifications
\* incrementStats({productId, views: 1, carts: 2})
ViewCart == [ZeroDelta EXCEPT !["views"] = 1, !["carts"] = 2]

\* The event path: trackEvent and the product-queue jobs it enqueues.
NextEvents ==
  \/ \E p \in Products, type \in EventTypes, quantity \in 1..MaxQuantity :
       TrackEvent(p, type, quantity)
  \/ QueueEventJobs
  \/ \E w \in Writers : HandleIncrementJob(w)
  \/ \E w \in Writers : IncrementStatsCheck(w)

EventSpec == Init /\ [][NextEvents]_vars

\* trackEvent on product 1 with an enqueueing that succeeds or fails, and the
\* worker of the jobs enqueued.
NextTrack ==
  \/ \E type \in EventTypes, quantity \in 1..MaxQuantity : TrackEvent(1, type, quantity)
  \/ QueueEventJobs
  \/ QueueEventJobsFails
  \/ \E w \in Writers : HandleIncrementJob(w)
  \/ \E w \in Writers : IncrementStatsCheck(w)

TrackSpec == Init /\ [][NextTrack]_vars

\* getStats of products whose counters hold given views, clicks and orders,
\* or that have neither counters nor row, against eviction and the expiry of
\* the cached response.
RateInputs ==
  {[ZeroDelta EXCEPT !["views"] = i[1], !["clicks"] = i[2], !["orders"] = i[3]] :
     i \in {<<0, 0, 0>>, <<0, 1, 1>>, <<200, 0, 10>>, <<200, 30, 0>>, <<3, 2, 1>>}}

ResponseInit ==
  \E rows \in [Products -> {NewProduct(NoDiscount, NoBoost, "done"),
                            NewProduct(NoDiscount, NoBoost, "saved")}],
     values \in [Products -> RateInputs] :
    InitFrom(Writers, rows, values, NoKeys)

NextResponse ==
  \/ \E p \in Products : GetStats("r1", p)
  \/ \E p \in Products : Evict(p)
  \/ \E p \in Products : ExpireCache(p)

ResponseSpec == ResponseInit /\ [][NextResponse]_vars

\* The dirty set under incrementStats and batchIncrementStats at different
\* times, with the flush cycle that takes ids out of it.
NextDirty ==
  \/ \E w \in Writers, p \in Products : DirectIncrement(w, p, Delta("views", 1))
  \/ \E w \in Writers : IncrementStatsCheck(w)
  \/ \E ids \in SUBSET Products : BatchIncrementStats(ids)
  \/ Tick
  \/ FlushDirtyStats("f1")

DirtySpec == Init /\ [][NextDirty]_vars

\* resetStats, views and getStats, one call at a time: a call starts and
\* proceeds only while no other call is under way.
NextReset ==
  \/ /\ rs.pc = "idle" /\ rd["r1"].pc = "idle"
     /\ \E w \in Writers, p \in Products : HandleStatsUpdate(w, p)
  \/ \E w \in Writers : IncrementStatsCheck(w)
  \/ \E w \in Writers : IncrementViewsAndUpdateRanking(w)
  \/ /\ rs.pc = "idle" /\ \A w \in Writers : wr[w].pc = "idle"
     /\ \E p \in Products : GetStats("r1", p)
  \/ /\ rd["r1"].pc = "idle" /\ \A w \in Writers : wr[w].pc = "idle"
     /\ \E p \in Products : ResetStats(p)

ResetSpec == Init /\ [][NextReset]_vars

\* Views of product 1, TTL eviction of its counters, the re-seed by getStats
\* and a flush cycle; no reset and no negative delta.
NextEvict ==
  \/ \E w \in Writers : HandleStatsUpdate(w, 1)
  \/ \E w \in Writers : DirectIncrement(w, 2, Delta("views", 1))
  \/ \E w \in Writers : IncrementStatsCheck(w)
  \/ \E w \in Writers : IncrementViewsAndUpdateRanking(w)
  \/ Evict(1)
  \/ GetStats("r1", 1)
  \/ FlushDirtyStats("f1")

EvictSpec == Init /\ [][NextEvict]_vars

\* The read path of product 1 against its writers, eviction and resetStats.
NextRead ==
  \/ \E w \in Writers, d \in {ViewCart, Delta("orders", 1)} : DirectIncrement(w, 1, d)
  \/ \E w \in Writers : HandleStatsUpdate(w, 1)
  \/ \E w \in Writers : IncrementStatsCheck(w)
  \/ \E w \in Writers : IncrementViewsAndUpdateRanking(w)
  \/ \E r \in Readers : GetStats(r, 1)
  \/ Evict(1)
  \/ ExpireCache(1)
  \/ ResetStats(1)

ReadSpec == Init /\ [][NextRead]_vars

\* The sync engine against the increment gateway: the timer, the on-demand
\* sync, the threshold job and one worker of the stats queue.
NextSync ==
  \/ \E w \in Writers, p \in Products : DirectIncrement(w, p, Delta("views", 1))
  \/ \E w \in Writers : IncrementStatsCheck(w)
  \/ \E p \in Products : Evict(p)
  \/ Tick
  \/ \E ids \in SUBSET Products : SyncRedisToDatabase(ids)
  \/ ScheduledFlush
  \/ FlushDirtyStats("f1")

SyncSpec == Init /\ [][NextSync]_vars

\* Concurrent flush cycles (two deliveries of the stats-flush job) against
\* the increment gateway and the on-demand sync.
NextFlush ==
  \/ \E w \in Writers, p \in Products : DirectIncrement(w, p, Delta("views", 1))
  \/ \E w \in Writers : IncrementStatsCheck(w)
  \/ Tick
  \/ \E ids \in SUBSET Products : SyncRedisToDatabase(ids)
  \/ \E f \in Flushers : FlushDirtyStats(f)

FlushSpec == Init /\ [][NextFlush]_vars

\* The cart worker against resetStats: items added to, updated in and
\* removed from the cart.
NextCart ==
  \/ \E w \in Writers, p \in Products, quantity \in 1..MaxQuantity : CartAddJob(w, p, quantity)
  \/ \E p \in Products, quantity \in 1..MaxQuantity : CartUpdateJob(p, quantity)
  \/ \E w \in Writers, p \in Products : CartRemoveJob(w, p)
  \/ \E w \in Writers : IncrementStatsCheck(w)
  \/ \E p \in Products : ResetStats(p)

CartSpec == Init /\ [][NextCart]_vars

\* Two concurrent callers of incrementStats, one applying {views: +3} and
\* the other {views: +2}, and the clock.
Callers == {"w1", "w2"}

CommuteInit == InitWith(Callers, [p \in Products |-> NewProduct(NoDiscount, NoBoost, "done")])

NextCommute ==
  \/ \E p \in Products : DirectIncrement("w1", p, Delta("views", 3))
  \/ \E p \in Products : DirectIncrement("w2", p, Delta("views", 2))
  \/ \E w \in Callers : IncrementStatsCheck(w)
  \/ Tick

CommuteSpec == CommuteInit /\ [][NextCommute]_vars

\* The rank indexes: products saved with or without a discount and a boost
\* (both running from the day before the save to its day), whose
\* product-created job has run or is still waiting; views of product 1,
\* ranking updates, removal, and the clock in days.
Discount20 == [discountPercentage |-> 20, discountStartDate |-> EpochDay - 1,
               discountEndDate |-> EpochDay]
ActiveBoost == [status |-> "active", startDate |-> EpochDay - 1, endDate |-> EpochDay]

ProductRows ==
  {NewProduct(NoDiscount, NoBoost, "done"),
   NewProduct(Discount20, ActiveBoost, "done"),
   NewProduct(Discount20, NoBoost, "saved")}

RankInit == \E rows \in [Products -> ProductRows] : InitWith(Writers, rows)

NextRank ==
  \/ \E w \in Writers : HandleStatsUpdate(w, 1)
  \/ \E w \in Writers : IncrementStatsCheck(w)
  \/ \E w \in Writers : IncrementViewsAndUpdateRanking(w)
  \/ \E p \in Products : UpdateProductRanking(p)
  \/ \E p \in Products : StatsCreateSave(p)
  \/ \E p \in Products : StatsCreateCounters(p)
  \/ \E p \in Products : StatsCreateRedelivered(p)
  \/ \E p \in Products : ProductsRemove(p)
  \/ HandleCacheInvalidation
  \/ Tick

RankSpec == RankInit /\ [][NextRank]_vars

\* The daily cleanup of the rank indexes: views of product 1, ranking
\* updates and the clock in days, from a new-arrivals index that holds
\* entries of 31, 30, 29 and 0 days ago.
NextCleanup ==
  \/ CleanupOldRankings
  \/ \E w \in Writers : HandleStatsUpdate(w, 1)
  \/ \E w \in Writers : IncrementStatsCheck(w)
  \/ \E w \in Writers : IncrementViewsAndUpdateRanking(w)
  \/ \E p \in Products : UpdateProductRanking(p)
  \/ Tick

CleanupSpec ==
  /\ \E rows \in [Products -> ProductRows], ids \in SUBSET Products :
       \E arrivals \in [ids -> {EpochDay - 31, EpochDay - 30, EpochDay - 29, EpochDay}] :
         InitFrom(Writers, rows, [p \in Products |-> ZeroDelta], arrivals)
  /\ [][NextCleanup]_vars

\* The hourly rebuild against views of product 1, the product-created job
\* and removal.
NextRebuild ==
  \/ RebuildAllRankings
  \/ \E w \in Writers : HandleStatsUpdate(w, 1)
  \/ \E w \in Writers : IncrementStatsCheck(w)
  \/ \E w \in Writers : IncrementViewsAndUpdateRanking(w)
  \/ \E p \in Products : StatsCreateSave(p)
  \/ \E p \in Products : StatsCreateCounters(p)
  \/ \E p \in Products : ProductsRemove(p)
  \/ HandleCacheInvalidation

RebuildSpec == RankInit /\ [][NextRebuild]_vars

\* Boosts of product 1: createBoost by two callers, the boost queue's jobs,
\* cancellation, views of the product, ranking updates by other callers and
\* the clock in days.
NextBoost ==
  \/ \E c \in BoostCallers : CreateBoostAcquire(c, 1)
  \/ \E c \in BoostCallers : CreateBoostSave(c)
  \/ \E c \in BoostCallers : CreateBoostRelease(c)
  \/ LockExpires(1)
  \/ ActivateBoost(1)
  \/ ExpireBoost(1)
  \/ CancelBoost(1)
  \/ MissingProcessHandler
  \/ \E w \in Writers : HandleStatsUpdate(w, 1)
  \/ \E w \in Writers : IncrementStatsCheck(w)
  \/ \E w \in Writers : IncrementViewsAndUpdateRanking(w)
  \/ UpdateProductRanking(1)
  \/ Tick

BoostSpec == Init /\ [][NextBoost]_vars

\* ------------------------------------------------------------ view buffer
\* trackView(productId, userId): one script RPUSHes the payload and returns
\* LLEN; at the threshold the singleton flush job is added.  The payload
\* (productId, userId, viewedAt) is one item, told apart by its number.
TrackView(p) ==
  /\ Len(tracked) < MaxViews
  /\ tracked' = Append(tracked, p)
  /\ viewBuffer' = Append(viewBuffer, [id |-> Len(tracked) + 1, productId |-> p])
  /\ viewJob' = IF Len(viewBuffer) + 1 >= PRODUCT_VIEW_FLUSH_THRESHOLD
                THEN EnqueuFlush(viewJob) ELSE viewJob
  /\ UNCHANGED <<statsVars, rankVars, cartVars, boostVars, vf, productViews, viewCount>>

\* flushBuffer up to the drain: LRANGE 0 .. BATCH-1 and LTRIM BATCH .. -1 in
\* one script; with no items the call returns.  The timer calls it every
\* 5 seconds, the worker for a waiting "flush-buffer" job.
DrainRedisBuffer(f) ==
  /\ vf[f].pc = "idle"
  /\ f = "worker" => viewJob = "waiting"
  /\ LET n == IF Len(viewBuffer) < VIEW_BATCH THEN Len(viewBuffer) ELSE VIEW_BATCH
         items == SubSeq(viewBuffer, 1, n)
     IN /\ viewBuffer' = SubSeq(viewBuffer, n + 1, Len(viewBuffer))
        /\ vf' = [vf EXCEPT ![f] = IF n = 0 THEN IdleViewFlusher
                                   ELSE [pc |-> "insert", items |-> items, inserted |-> FALSE]]
        /\ viewJob' = IF f = "worker" THEN (IF n = 0 THEN "completed" ELSE "active")
                      ELSE viewJob
  /\ UNCHANGED <<statsVars, rankVars, cartVars, boostVars, productViews, viewCount, tracked>>

\* groupByProduct: the number of items of the batch per productId.
GroupByProduct(items) ==
  [p \in Products |-> Cardinality({i \in 1..Len(items) : items[i].productId = p})]

\* The bulk INSERT ... orIgnore of the batch.  product_views has no unique
\* index besides its generated id, so every item becomes a new row.  A
\* rejected insert goes to the catch block.
FlushBufferInsert(f) ==
  /\ vf[f].pc = "insert"
  /\ \/ /\ Len(productViews) + Len(vf[f].items) <= MaxRows
        /\ productViews' = productViews \o vf[f].items
        /\ vf' = [vf EXCEPT ![f].pc = "counters", ![f].inserted = TRUE]
     \/ /\ vf' = [vf EXCEPT ![f].pc = "requeue"]
        /\ UNCHANGED productViews
  /\ UNCHANGED <<statsVars, rankVars, cartVars, boostVars, viewBuffer, viewCount, viewJob, tracked>>

\* incrementViewCounters(groupByProduct(items)): one MULTI of INCRBY
\* product:{id}:views; a rejected exec goes to the catch block.
IncrementViewCounters(f) ==
  /\ vf[f].pc = "counters"
  /\ \/ /\ viewCount' = [p \in Products |-> viewCount[p] + GroupByProduct(vf[f].items)[p]]
        /\ vf' = [vf EXCEPT ![f].pc = "aggregate"]
     \/ /\ vf' = [vf EXCEPT ![f].pc = "requeue"]
        /\ UNCHANGED viewCount
  /\ UNCHANGED <<statsVars, rankVars, cartVars, boostVars, viewBuffer, productViews, viewJob, tracked>>

\* viewQueue.add("aggregate_view_stats", { countMap }), the last step of the
\* try block: the call is over, or the add is rejected and the catch block
\* runs.  The job itself is a no-op of the view worker.
FlushBufferAggregate(f) ==
  /\ vf[f].pc = "aggregate"
  /\ \/ /\ vf' = [vf EXCEPT ![f] = IdleViewFlusher]
        /\ viewJob' = IF f = "worker" THEN "completed" ELSE viewJob
     \/ /\ vf' = [vf EXCEPT ![f].pc = "requeue"]
        /\ UNCHANGED viewJob
  /\ UNCHANGED <<statsVars, rankVars, cartVars, boostVars, viewBuffer, productViews, viewCount, tracked>>

\* catch: requeueItems(items) LPUSHes the items last to first in one script,
\* which puts them at the head of the list in their order; flushBuffer
\* then returns normally.
RequeueItems(f) ==
  /\ vf[f].pc = "requeue"
  /\ viewBuffer' = vf[f].items \o viewBuffer
  /\ vf' = [vf EXCEPT ![f] = IdleViewFlusher]
  /\ viewJob' = IF f = "worker" THEN "completed" ELSE viewJob
  /\ UNCHANGED <<statsVars, rankVars, cartVars, boostVars, productViews, viewCount, tracked>>

\* Views of both products tracked while the timer and the worker flush.
NextView ==
  \/ \E p \in Products : TrackView(p)
  \/ \E f \in ViewFlushers : DrainRedisBuffer(f)
  \/ \E f \in ViewFlushers : FlushBufferInsert(f)
  \/ \E f \in ViewFlushers : IncrementViewCounters(f)
  \/ \E f \in ViewFlushers : FlushBufferAggregate(f)
  \/ \E f \in ViewFlushers : RequeueItems(f)

ViewSpec == Init /\ [][NextView]_vars

\* ------------------------------------------------------------- properties
\* C1 (as stated; SyncSpec): between operations a product is in the dirty
\* set if and only if an incrementStats on it has run since its last
\* successful flush.  syncRedisToDatabase([p]) alone breaks it: the id is
\* ZADDed and the flush that would take it out again is disabled.
C1_DirtyIffIncremented ==
  ((\A w \in Writers : wr[w].pc = "idle") /\ (\A f \in Flushers : fl[f].pc = "idle"))
    => \A p \in Products : (p \in DOMAIN dirty) <=> pending[p]

\* C2 (as stated; SyncSpec): once a cycle of the 10-second timer that was
\* due to claim product p has run and no counter of p has changed since, p
\* has left the dirty set and its durable row equals its counters (views
\* recorded, then a sync cycle: totalViews = views).  scheduledFlush has an
\* empty body, so the row stays as it was.
C2_FlushReflectsIncrements ==
  \A p \in Products :
    cycled[p] => /\ p \notin DOMAIN dirty
                 /\ p \in DOMAIN db
                 /\ db[p] = ToRow(ReadCounters(counters[p]))

\* C3 (FlushSpec): in a flush cycle whose upsert fails, the failure step and
\* the steps after it change no durable row and refresh no counter TTL, and
\* when the cycle ends every id it claimed is in the dirty set.
C3_FailedFlushRestores ==
  [][\A f \in Flushers :
       /\ (fl[f].pc = "upsert" /\ fl'[f].pc = "retry") => (db' = db /\ ttlAt' = ttlAt)
       /\ (fl[f].pc = "retry" /\ fl'[f].pc = "failed")
            => (db' = db /\ ttlAt' = ttlAt /\ fl[f].ids \subseteq DOMAIN dirty')
       /\ (fl[f].pc = "failed" /\ fl'[f].pc = "idle")
            => (db' = db /\ ttlAt' = ttlAt /\ dirty' = dirty)]_vars

\* C3 witness: a cycle that claimed ids has failed and re-added them.
C3_Witness ==
  \E f \in Flushers :
    fl[f].pc = "failed" /\ fl[f].ids # {} /\ fl[f].ids \subseteq DOMAIN dirty

\* C4 (ReadSpec): incrementStats changes the counters only by the step that
\* executes its pipeline; that step adds the whole dto (views together with
\* carts) and leaves the product in the dirty set; and getStats reads the six
\* counters in one step, so a read observes all of a call or none of it.
C4_IncrementAtomic ==
  [][/\ \A w \in Writers :
          (wr[w].pc = "idle" /\ wr'[w].pc = "zcard") =>
             /\ \A m \in Metrics :
                  Val(counters'[wr'[w].p], m) = Val(counters[wr'[w].p], m) + wr'[w].dto[m]
             /\ wr'[w].p \in DOMAIN dirty'
     /\ (wr' # wr /\ counters' # counters)
          => \E w \in Writers : wr[w].pc = "idle" /\ wr'[w].pc = "zcard"
     /\ \A r \in Readers :
          (rd[r].pc = "L2" /\ rd'[r].pc # "L2")
             => rd'[r].vals = ReadCounters(counters[rd[r].p])]_vars

\* C4 witness: incrementStats({views: 1, carts: 2}) has executed its pipeline
\* and has not returned, and a concurrent getStats has read views 1, carts 2.
C4_Witness ==
  \E w \in Writers, r \in Readers :
    /\ wr[w].pc = "zcard" /\ wr[w].dto = ViewCart
    /\ rd[r].pc = "set" /\ rd[r].vals["views"] = 1 /\ rd[r].vals["carts"] = 2

\* C5 (as stated; EventSpec): when every accepted event has been processed
\* (trackEvent returned, no job waiting or running) each counter of a product
\* equals the sum of the deltas of its events.  trackEvent INCRs the counter
\* itself and also enqueues the job whose handler calls incrementStats, so
\* one view raises views by 2.
C5_CountersMatchEvents ==
  (tr.pc = "idle" /\ productQueue = <<>> /\ (\A w \in Writers : wr[w].pc = "idle"))
    => \A p \in Products, m \in Metrics : Val(counters[p], m) = recorded[p][m]

\* C6 (FlushSpec): when a cycle flushes a product whose counters have not
\* changed since its last successful flush read them, the upsert writes the
\* row that flush wrote.
C6_FlushIdempotent ==
  [][\A f \in Flushers :
       (fl[f].pc = "upsert" /\ fl'[f].pc = "ttl")
          => \A p \in DOMAIN fl[f].prev : db'[p] = fl[f].prev[p]]_vars

\* C6 witness: a second flush of an unchanged product with views > 0 has written.
C6_Witness ==
  \E f \in Flushers :
    fl[f].pc = "ttl" /\ \E p \in DOMAIN fl[f].prev : fl[f].prev[p].totalViews > 0

C8_EvictionFallback ==
  [][\A r \in Readers :
       /\ (rd[r].pc = "L2" /\ rd'[r].pc # "L2" /\ DOMAIN counters[rd[r].p] = {})
            => rd'[r].pc = "L3"
       /\ (rd[r].pc = "L3" /\ rd'[r].pc # "L3" /\ rd[r].p \in DOMAIN db)
            => /\ rd'[r].pc = "seed"
               /\ rd'[r].vals = RowVals(db[rd[r].p])
               /\ rd'[r].vals["views"] = db[rd[r].p].totalViews
       /\ (rd[r].pc = "seed" /\ rd'[r].pc # "seed")
            => /\ rd'[r].pc = "set"
               /\ DOMAIN counters'[rd[r].p] = Metrics
               /\ ReadCounters(counters'[rd[r].p]) = rd[r].vals
       /\ (rd[r].pc = "set" /\ rd'[r].pc # "set")
            => /\ rd'[r].pc = "done"
               /\ rd'[r].vals.totalViews = rd[r].vals["views"]
               /\ rd[r].p \in DOMAIN cache'
               /\ cache'[rd[r].p].stats = rd'[r].vals
       /\ (rd[r].pc = "idle" /\ rd'[r].pc # "idle" /\ rd'[r].p \in DOMAIN cache)
            => /\ rd'[r].pc = "done"
               /\ rd'[r].vals = cache[rd'[r].p].stats]_vars

\* C8 witness: the counters of the product are absent, its row has
\* totalViews > 0, and a getStats has fetched the row and is about to re-seed.
C8_Witness ==
  \E r \in Readers :
    /\ rd[r].pc = "seed"
    /\ DOMAIN counters[rd[r].p] = {}
    /\ rd[r].vals["views"] > 0
    /\ rd[r].vals["views"] = db[rd[r].p].totalViews

\* C8 (as stated; ReadSpec): a getStats(p) called while the counters of p are
\* absent and its row has totalViews = v returns totalViews = v.  A cached
\* response that outlives the counters is returned instead.
C8_AbsentCountersGiveDurable ==
  [][\A r \in Readers :
       (rd[r].pc = "idle" /\ rd'[r].pc = "done"
          /\ DOMAIN counters[rd'[r].p] = {} /\ rd'[r].p \in DOMAIN db)
         => rd'[r].vals.totalViews = db[rd'[r].p].totalViews]_vars

\* C9 (as stated; ReadSpec): no step of getStats changes the value of a
\* counter that is present.  The fallback taken when views, clicks and carts
\* are 0 re-seeds all six counters from the row, orders included.
C9_ReadNeverChangesCounters ==
  [][(rd' # rd) =>
       \A p \in Products : \A m \in DOMAIN counters[p] :
         m \in DOMAIN counters'[p] /\ counters'[p][m] = counters[p][m]]_vars

\* C10 (as stated; ReadSpec): the response of a getStats(p) includes every
\* incrementStats(p) that had returned when the getStats started.  A getStats
\* that read the counters before the increment writes its response to the
\* cache after the increment's DEL, and the next getStats returns it.
C10_NoStaleAfterIncrement ==
  \A r \in Readers : rd[r].pc = "done" => rd[r].ver >= rd[r].since

\* C11 (as stated; CartSpec): in every reachable state every counter of
\* every product is non-negative.  The cart removal decrements carts by the
\* item's quantity with no floor: an item added with quantity 1 and updated
\* to 2 (no increment), or added before a resetStats, takes carts below 0.
C11_CountersNonNegative ==
  \A p \in Products : \A m \in Metrics : Val(counters[p], m) >= 0

\* C12 (CommuteSpec): increments commute.  When the calls {views: +3} and
\* {views: +2} of two concurrent callers are the only two pipelines executed
\* on a product, in either order, its views counter is the sum of the two
\* deltas.
C12_IncrementsCommute ==
  \A p \in Products :
    ( /\ wr["w1"].pc = "zcard" /\ wr["w1"].p = p
      /\ wr["w2"].pc = "zcard" /\ wr["w2"].p = p
      /\ execCount[p] = 2 )
      => Val(counters[p], "views") = wr["w1"].dto["views"] + wr["w2"].dto["views"]

\* Both calls have executed on product 1 and neither has returned: views is 5.
C12_Witness ==
  /\ wr["w1"].pc = "zcard" /\ wr["w1"].p = 1 /\ wr["w1"].dto["views"] = 3
  /\ wr["w2"].pc = "zcard" /\ wr["w2"].p = 1 /\ wr["w2"].dto["views"] = 2
  /\ execCount[1] = 2
  /\ Val(counters[1], "views") = 5

\* C13 (as stated; RankSpec): once updateProductRanking(p) has updated the
\* indexes, and in the same instant, the trending index holds for p the
\* score (views*1 + carts*5 + clicks*3 + orders*10 + max(0, 30 - age)*0.1) * m,
\* here in tenths, with m = 2 for an active boost whose window holds now.
\* The code takes the age from `new Date(product.id)`, some 20000 days, so the
\* recency term is always 0 (and it weighs carts by 3 and clicks by 5).
C13_TrendingScoreFormula ==
  (ur.outcome = "updated" /\ ur.at = Today)
    => LET p == ur.p
           stats == db[p]
           ageInDays == Today - products[p].createdAt
           m == IF /\ products[p].boosting.status = "active"
                   /\ products[p].boosting.startDate <= Today
                   /\ Today <= products[p].boosting.endDate
                THEN 2 ELSE 1
       IN /\ p \in DOMAIN trending
          /\ trending[p] = ((stats.totalViews * 1 + stats.totalCarts * 5 + stats.clicks * 3
                               + stats.totalOrders * 10) * 10 + Max(0, 30 - ageInDays)) * m

\* C14 (as stated; RankSpec): the range queries return the IDs in the
\* promised order: getTrendingProducts and getDiscountedProducts highest
\* score first, getNewArrivals most recent first.  zrange is ZRANGE without
\* REV, which lists the lowest score first.
C14_HighestScoreFirst ==
  LET Descending(ids, z) ==
        \A i \in 1..Len(ids) : \A j \in 1..Len(ids) : i < j => z[ids[i]] >= z[ids[j]]
  IN /\ Descending(GetTrendingProducts(MaxLimit, 0), trending)
     /\ Descending(GetDiscountedProducts(MaxLimit, 0), discounted)
     /\ Descending(GetNewArrivals(MaxLimit, 0), newArrivals)

\* C15 (as stated; RankSpec): for every limit >= 1 and offset >= 0 each
\* range query returns at most limit IDs, the entries at positions
\* offset .. offset+limit-1 of the order in which it lists its index.
\* getTrendingProducts passes (offset, limit) as ZRANGE's start and stop.
C15_AtMostLimitIds ==
  \A limit \in 1..MaxLimit : \A offset \in 0..MaxOffset :
    LET Window(z) == SubSeq(Ascending(z), offset + 1,
                            Min(offset + limit, Cardinality(DOMAIN z)))
    IN /\ Len(GetTrendingProducts(limit, offset)) <= limit
       /\ GetTrendingProducts(limit, offset) = Window(trending)
       /\ Len(GetDiscountedProducts(limit, offset)) <= limit
       /\ GetDiscountedProducts(limit, offset) = Window(discounted)
       /\ Len(GetNewArrivals(limit, offset)) <= limit
       /\ GetNewArrivals(limit, offset) = Window(newArrivals)

\* C16 (as stated; RankSpec): getProductTrendingRank(p) is null exactly when
\* p is absent from the trending index, and otherwise it is k exactly when p
\* is the k-th ID of getTrendingProducts(limit >= k, 0).  The rank is counted
\* from the highest score (ZREVRANK), the range query lists from the lowest.
C16_RankMatchesRange ==
  \A p \in Products :
    /\ (GetProductTrendingRank(p) = NoDate) <=> (p \notin DOMAIN trending)
    /\ p \in DOMAIN trending =>
         \A limit \in 1..MaxLimit : \A k \in 1..limit :
           (GetProductTrendingRank(p) = k)
             <=> (k <= Len(GetTrendingProducts(limit, 0)) /\ GetTrendingProducts(limit, 0)[k] = p)

\* C17 (as stated; RankSpec): once updateProductRanking(p) has completed,
\* and in the same instant, p is in the discounted index with its
\* discountPercentage as score if and only if p has a discount percentage
\* and now lies within [discountStartDate, discountEndDate].  For a product
\* whose stats row is not there yet the call fails at the score and never
\* reaches the discounted index.
C17_DiscountedIffActive ==
  (ur.outcome \in {"updated", "failed"} /\ ur.at = Today)
    => LET product == products[ur.p]
       IN (ur.p \in DOMAIN discounted /\ discounted[ur.p] = product.discountPercentage)
            <=> ( /\ product.discountPercentage # 0
                  /\ product.discountStartDate <= Today
                  /\ Today <= product.discountEndDate )

\* C18 (as stated; RankSpec): once updateProductRanking(p) has updated the
\* indexes for a product of age at most 30 days, p is in the new-arrivals
\* index with the day of its creation as score.  The age is taken from
\* `new Date(product.id)`, so no product is ever young enough, and the score
\* the code would write is Date.now().
C18_NewArrivalScore ==
  (ur.outcome = "updated" /\ ur.at - products[ur.p].createdAt <= 30)
    => (ur.p \in DOMAIN newArrivals /\ newArrivals[ur.p] = products[ur.p].createdAt)

C20_RebuildExact ==
  (rb.pc = "done" /\ rb.products = products /\ rb.db = db /\ rb.now = now)
    => /\ DOMAIN trending = {p \in Products : Found(p)}
       /\ \A p \in DOMAIN trending \cap DOMAIN db :
            trending[p] = calculateTrendingScore(db[p], products[p].boosting,
                                                 Today - IdAsDay(p), Today)

C29_ReleaseComparesToken ==
  [][\A c \in BoostCallers :
       ( /\ bc[c].pc = "finally"
         /\ bc'[c].pc = "idle"
         /\ bc[c].p \in DOMAIN lock
         /\ lock[bc[c].p] # bc[c].token )
         => lock' = lock]_vars

\* A caller is about to release while another caller holds the lock.
C29_Witness ==
  \E c, d \in BoostCallers :
    /\ c # d
    /\ bc[c].pc = "finally"
    /\ bc[d].pc = "locked"
    /\ bc[c].p = bc[d].p
    /\ bc[c].p \in DOMAIN lock
    /\ lock[bc[c].p] = bc[d].token

\* C22 (as stated; ReadSpec): the counters of a durable row change only in
\* the sync engine's batch upsert, in the creation of the zeroed row and in
\* an explicit reset.  Processing a view increments totalViews of the row
\* directly.
C22_DurableWrittenBySyncOnly ==
  [][(db' # db) =>
       \/ \E f \in Flushers : fl[f].pc = "upsert" /\ fl'[f].pc # "upsert"
       \/ rs.pc = "idle" /\ rs'.pc = "redis"
       \/ DOMAIN db' # DOMAIN db]_vars

C24_ThresholdSignals ==
  [][\A w \in Writers :
       ( /\ wr[w].pc = "zcard"
         /\ wr'[w].pc # "zcard"
         /\ Cardinality(DOMAIN dirty) >= DIRTY_FLUSH_THRESHOLD )
         => flushJob' \in {"waiting", "active"}]_vars

\* C25 (as stated; SyncSpec): when syncRedisToDatabase returns, the
\* products it has marked dirty and counts as synced have been flushed:
\* the durable row of each equals its counters.  The call to the flush is
\* disabled, and the ids are counted as synced once they are marked.
C25_SyncedMeansFlushed ==
  [][(dirty' # dirty /\ wr' = wr /\ fl' = fl) =>
       \A p \in DOMAIN dirty' :
         (p \notin DOMAIN dirty \/ dirty'[p] # dirty[p]) =>
           /\ p \in DOMAIN db'
           /\ RowVals(db'[p]) = ReadCounters(counters'[p])]_vars

\* C26 (as stated; TrackSpec): when trackEvent reports tracked = false, the
\* call has changed no counter of the product.  The counter is incremented
\* before the jobs are enqueued, and a failure of the enqueueing leaves the
\* increment in place.
C26_UntrackedChangesNothing ==
  [][(tr.pc = "queue" /\ tr'.pc = "idle" /\ productQueue' = productQueue) =>
       counters'[tr.p] = tr.before]_vars

\* C27 (ResponseSpec): getStats(p) of a product that has no cached response,
\* no counters and no durable row returns the response whose six metrics and
\* two rates are 0, and has written that response to the computed cache when
\* it returns.
C27_MissingGivesZeros ==
  [][\A r \in Readers :
       ( /\ rd[r].pc = "set" /\ rd'[r].pc = "done"
         /\ DOMAIN counters[rd[r].p] = {}
         /\ rd[r].p \notin DOMAIN db )
         => /\ rd'[r].vals = [StatsOf(rd[r].p, ZeroDelta) EXCEPT !.conversionRate = 0,
                                                                 !.clickThroughRate = 0]
            /\ rd[r].p \in DOMAIN cache'
            /\ cache'[rd[r].p].stats = rd'[r].vals]_vars

\* getStats has returned zeros for a product without counters and row.
C27_Witness ==
  \E r \in Readers :
    /\ rd[r].pc = "done"
    /\ DOMAIN counters[rd[r].p] = {}
    /\ rd[r].p \notin DOMAIN db
    /\ rd[r].vals.totalViews = 0
    /\ rd[r].p \in DOMAIN cache

\* C28 (ResponseSpec): the response of getStats has conversionRate =
\* orders / views * 100 and clickThroughRate = clicks / views * 100 (to the
\* hundredth of a percent) when views > 0, 5.0 for views = 200 and
\* orders = 10, and both rates 0 when views = 0.
C28_Rates ==
  \A r \in Readers :
    rd[r].pc = "done" =>
      LET s == rd[r].vals IN
        /\ s.totalViews > 0 =>
             /\ s.conversionRate * s.totalViews <= s.totalOrders * 10000
             /\ s.totalOrders * 10000 < (s.conversionRate + 1) * s.totalViews
             /\ s.clickThroughRate * s.totalViews <= s.clicks * 10000
             /\ s.clicks * 10000 < (s.clickThroughRate + 1) * s.totalViews
        /\ (s.totalViews = 200 /\ s.totalOrders = 10) => s.conversionRate = 500
        /\ s.totalViews = 0 => (s.conversionRate = 0 /\ s.clickThroughRate = 0)

\* getStats has returned 5.0 for views = 200 and orders = 10.
C28_Witness ==
  \E r \in Readers :
    /\ rd[r].pc = "done"
    /\ rd[r].vals.totalViews = 200
    /\ rd[r].vals.totalOrders = 10
    /\ rd[r].vals.conversionRate = 500

\* C30 (DirtySpec): incrementStats and batchIncrementStats add a product to
\* the dirty set only if it is absent: an increment leaves the first-dirtied
\* timestamp of every product that is in the dirty set as it is.
C30_FirstDirtiedKept ==
  [][(counters' # counters) =>
       \A p \in DOMAIN dirty : p \in DOMAIN dirty' /\ dirty'[p] = dirty[p]]_vars

\* A product dirtied at an earlier time has been incremented a second time.
C30_Witness ==
  \E p \in Products :
    /\ p \in DOMAIN dirty
    /\ dirty[p] < now
    /\ execCount[p] = MaxCalls
    /\ ReadCounters(counters[p]).views = MaxCalls

\* C31 (ResetSpec): resetStats(p) sets the six counters of p to 0 and
\* deletes p's cached response, and none of its steps changes the dirty set;
\* with one call at a time, a getStats(p) that finds the counters as the
\* reset left them returns all zeros.
C31_ResetZeroes ==
  /\ [][/\ (rs.pc = "redis" /\ rs'.pc = "cache") =>
             ReadCounters(counters'[rs.p]) = ZeroDelta /\ DOMAIN counters'[rs.p] = Metrics
        /\ (rs.pc = "cache" /\ rs'.pc = "idle") => rs.p \notin DOMAIN cache'
        /\ (rs' # rs) => dirty' = dirty]_vars
  /\ [](\A r \in Readers :
          ( /\ rd[r].pc = "done"
            /\ execCount[rd[r].p] > 0
            /\ ReadCounters(counters[rd[r].p]) = ZeroDelta )
            => rd[r].vals = StatsOf(rd[r].p, ZeroDelta))

\* getStats has returned after a reset of a product that had views, in its
\* counters and in its row.
C31_Witness ==
  \E r \in Readers :
    /\ rd[r].pc = "done"
    /\ execCount[rd[r].p] > 0
    /\ ReadCounters(counters[rd[r].p]) = ZeroDelta
    /\ rd[r].p \in DOMAIN dirty

C33_BatchSkipsFailures ==
  [][/\ (rb.pc = "batch" /\ rb'.pc = "batch" /\ rb' # rb) =>
          \E p \in rb.ids : rb'.ids = rb.ids \ {p} /\ ur'.p = p
     /\ (rb.pc = "batch" /\ rb'.pc = "done") =>
          /\ rb.ids = {}
          /\ \A p \in Products :
               (p \in DOMAIN rb.db /\ Found(p)) => p \in DOMAIN trending]_vars

\* A batch has ended in which the update of one product failed and another
\* product was ranked.
C33_Witness ==
  /\ rb.pc = "done"
  /\ \E p, q \in Products :
       /\ p \notin DOMAIN db /\ Found(p)
       /\ q \in DOMAIN rb.db /\ q \in DOMAIN trending

\* C34 (as stated; EvictSpec): a counter that is present holds a total at
\* least as large as the durable one of its product, and no step, a flush
\* included, decreases a durable counter.  Counters that come back after a
\* TTL eviction start from 0, not from the row.
C34_CountersAtLeastDurable ==
  /\ [](\A p \in DOMAIN db :
          \A m \in DOMAIN counters[p] : counters[p][m] >= RowVals(db[p])[m])
  /\ [][\A p \in DOMAIN db :
          p \in DOMAIN db' /\ \A m \in Metrics : RowVals(db'[p])[m] >= RowVals(db[p])[m]]_vars


C36_TerminalStatuses ==
  [][\A p \in Products :
       LET old == products[p].boosting.status
           new == products'[p].boosting.status
       IN /\ (old \in {"canceled", "expired"} => new = old)
          /\ (new = "active" /\ old # "active" => old = "pending")]_vars

\* ------------------------------------------------------------------ C37
\* C37 (as stated; BoostSpec): once the "update-boost-stats" jobs of a
\* product have left the product queue, its boostScore counter holds the
\* score (1) of its boost while the boost is pending or active and 0 once
\* the boost has ended or while there is none.  The jobs are added to the
\* product queue, whose processor has no handler for them, so the counter
\* never receives the score of a created boost.
C37_BoostScoreBalanced ==
  \A p \in Products :
    (\A i \in 1..Len(productQueue) :
        ~(productQueue[i].name = "update-boost-stats" /\ productQueue[i].productId = p))
      => Val(counters[p], "boostScore") =
           (IF products[p].boosting.status \in {"pending", "active"} THEN 1 ELSE 0)

\* ------------------------------------------------------------------ C38
\* C38 (as stated; ViewSpec): every view pushed by trackView is at any time
\* in exactly one place: the Redis buffer, the batch of a flushBuffer call
\* that has not inserted it, or the rows of product_views.  When a step
\* after the insert is rejected, the catch block re-queues items that are
\* already rows, and the next flush inserts them a second time.
C38_ViewsConserved ==
  \A id \in 1..Len(tracked) :
    LET Count(seq) == Cardinality({i \in 1..Len(seq) : seq[i].id = id})
        held == {f \in ViewFlushers : ~vf[f].inserted /\ Count(vf[f].items) > 0}
    IN /\ Count(viewBuffer) + Cardinality(held) + Count(productViews) = 1
       /\ \A f \in held : Count(vf[f].items) = 1

\* ------------------------------------------------------------------ C39
\* C39 (as stated; ViewSpec): the counter product:{id}:views never exceeds
\* the number of views tracked for the product, and equals it once the
\* buffer is empty and no flushBuffer call is running.  A flush whose
\* "aggregate_view_stats" add is rejected after INCRBY re-queues the batch,
\* and the next flush adds the same views to the counter again.
C39_ViewCountedOnce ==
  \A p \in Products :
    LET n == Cardinality({i \in 1..Len(tracked) : tracked[i] = p})
    IN /\ viewCount[p] <= n
       /\ (viewBuffer = <<>> /\ \A f \in ViewFlushers : vf[f].pc = "idle") => viewCount[p] = n

====
